---- MODULE Spec2Model ----
(***************************************************************************)
(* A model of the clide argument parser (src/src/index.ts, class           *)
(* ClideParser).  Strings are sequences of one-character strings so that   *)
(* slicing, prefix tests and case folding are computed as the code         *)
(* computes them.  JavaScript objects used as maps are sequences of        *)
(* entries in insertion order (the order Object.entries yields).           *)
(***************************************************************************)
EXTENDS Integers, Sequences, FiniteSets, TLC

(***************************************************************************)
(* Bounds                                                                  *)
(***************************************************************************)
MaxArgs == 3

(***************************************************************************)
(* String and array primitives of the JavaScript runtime                  *)
(***************************************************************************)
Lower(c) ==
  CASE c = "A" -> "a" [] c = "B" -> "b" [] c = "C" -> "c" [] c = "D" -> "d"
    [] c = "E" -> "e" [] c = "F" -> "f" [] c = "G" -> "g" [] c = "H" -> "h"
    [] c = "I" -> "i" [] c = "J" -> "j" [] c = "K" -> "k" [] c = "L" -> "l"
    [] c = "M" -> "m" [] c = "N" -> "n" [] c = "O" -> "o" [] c = "P" -> "p"
    [] c = "Q" -> "q" [] c = "R" -> "r" [] c = "S" -> "s" [] c = "T" -> "t"
    [] c = "U" -> "u" [] c = "V" -> "v" [] c = "W" -> "w" [] c = "X" -> "x"
    [] c = "Y" -> "y" [] c = "Z" -> "z" [] OTHER -> c

toLowerCase(s) == [k \in 1..Len(s) |-> Lower(s[k])]

startsWith(s, p) == Len(s) >= Len(p) /\ SubSeq(s, 1, Len(p)) = p

\* 0-based index of the first occurrence of character c, -1 when absent
indexOf(s, c) ==
  IF \E k \in 1..Len(s) : s[k] = c
    THEN (CHOOSE k \in 1..Len(s) : s[k] = c /\ \A j \in 1..(k - 1) : s[j] # c) - 1
    ELSE -1

\* a relative index of slice(): negative counts from the end, clamped
sliceIndex(k, n) ==
  IF k < 0 THEN (IF n + k < 0 THEN 0 ELSE n + k) ELSE (IF k > n THEN n ELSE k)

\* slice(a, b) on strings and arrays, 0-based, end exclusive
slice(s, a, b) ==
  LET from == sliceIndex(a, Len(s))
      to   == sliceIndex(b, Len(s))
  IN  IF from >= to THEN <<>> ELSE SubSeq(s, from + 1, to)

sliceFrom(s, a) == slice(s, a, Len(s))

\* array.join("") of an array of strings
RECURSIVE join(_)
join(parts) == IF parts = <<>> THEN <<>> ELSE Head(parts) \o join(Tail(parts))

\* "abc".split("") : the array of the one-character strings
split(s) == [k \in 1..Len(s) |-> <<s[k]>>]

(***************************************************************************)
(* Number(text): decimal digit strings and the empty string (which is 0);  *)
(* every other text used in this model is NaN in JavaScript too.           *)
(***************************************************************************)
Digits == {"0", "1", "2", "3", "4", "5", "6", "7", "8", "9"}

DigitVal(c) ==
  CASE c = "0" -> 0 [] c = "1" -> 1 [] c = "2" -> 2 [] c = "3" -> 3
    [] c = "4" -> 4 [] c = "5" -> 5 [] c = "6" -> 6 [] c = "7" -> 7
    [] c = "8" -> 8 [] c = "9" -> 9

RECURSIVE DecimalValue(_)
DecimalValue(s) ==
  IF s = <<>> THEN 0
  ELSE DecimalValue(SubSeq(s, 1, Len(s) - 1)) * 10 + DigitVal(s[Len(s)])

Number(s) ==
  IF \A k \in 1..Len(s) : s[k] \in Digits
    THEN [nan |-> FALSE, n |-> DecimalValue(s)]
    ELSE [nan |-> TRUE, n |-> 0]

(***************************************************************************)
(* ClideOptionValue (types.ts) plus undefined, tagged with typeof          *)
(***************************************************************************)
Undefined == [t |-> "undefined", s |-> <<>>, n |-> 0, b |-> FALSE]
Str(s)    == [t |-> "string", s |-> s, n |-> 0, b |-> FALSE]
Num(n)    == [t |-> "number", s |-> <<>>, n |-> n, b |-> FALSE]
Bool(b)   == [t |-> "boolean", s |-> <<>>, n |-> 0, b |-> b]

(***************************************************************************)
(* Record<string, ClideOptionValue> : entries [k, v] in insertion order    *)
(***************************************************************************)
Has(m, k) == \E j \in 1..Len(m) : m[j].k = k
Get(m, k) ==
  IF Has(m, k) THEN m[CHOOSE j \in 1..Len(m) : m[j].k = k].v ELSE Undefined
Put(m, k, v) ==
  IF Has(m, k)
    THEN [j \in 1..Len(m) |-> IF m[j].k = k THEN [k |-> k, v |-> v] ELSE m[j]]
    ELSE Append(m, [k |-> k, v |-> v])
Keys(m) == {m[j].k : j \in 1..Len(m)}

(***************************************************************************)
(* ClideOption (types.ts).  Absent fields: short <<>>, env "",             *)
(* default Undefined, hasChoices FALSE, validate "".                       *)
(***************************************************************************)
ClideOption(name, type) ==
  [name |-> name, type |-> type, short |-> <<>>, required |-> FALSE,
   env |-> "", default |-> Undefined, hasChoices |-> FALSE, choices |-> <<>>,
   validate |-> "", negatable |-> FALSE, hidden |-> FALSE]

\* the result of a failed lookup  options?.[name]
NoOption == ClideOption(<<>>, "undefined")

\* Record<string, ClideOption> is a sequence of options in declaration order
HasOption(opts, name) == \E j \in 1..Len(opts) : opts[j].name = name
OptionAt(opts, name) ==
  IF HasOption(opts, name)
    THEN opts[CHOOSE j \in 1..Len(opts) : opts[j].name = name]
    ELSE NoOption

\* ClideCommand and ClideConfig (types.ts)
ClideCommand(name, opts) == [name |-> name, options |-> opts]

ClideConfig ==
  [options |-> <<>>, commands |-> <<>>, defaultCommand |-> <<>>,
   allowPositionals |-> FALSE, disableHelp |-> FALSE, disablePrompts |-> FALSE,
   throwOnError |-> FALSE]

HasCommand(cfg, name) == \E j \in 1..Len(cfg.commands) : cfg.commands[j].name = name
CommandOptions(cfg, name) ==
  IF HasCommand(cfg, name)
    THEN cfg.commands[CHOOSE j \in 1..Len(cfg.commands) : cfg.commands[j].name = name].options
    ELSE <<>>


(***************************************************************************)
(* Errors.  kind identifies the message template of the thrown Error,      *)
(* subject the quoted token / option name / value, names the option list   *)
(* and command the command named in the message (<<>> when none).          *)
(***************************************************************************)
Error(kind, subject) == [kind |-> kind, subject |-> subject, names |-> <<>>, command |-> <<>>]
NoError == Error("none", <<>>)

\* Array.prototype.includes on an array of strings
includes(arr, x) == \E k \in 1..Len(arr) : arr[k] = x

\* Map<string,string>.get : <<>> stands for undefined
MapGet(m, k) == IF Has(m, k) THEN m[CHOOSE j \in 1..Len(m) : m[j].k = k].v ELSE <<>>

(***************************************************************************)
(* getOption(optionName?, shortOptionName?, isProgramOption?)              *)
(* self carries the fields of the parser instance; <<>> is an absent name. *)
(***************************************************************************)
\* a lookup that uses the command in the program segment too
lookupCommandAlways(prog, isProgramOption) == prog.command

\* line 813: the command whose options are looked up
lookupCommand(prog, isProgramOption) == IF isProgramOption THEN <<>> ELSE prog.command

\* a lookup that checks the global options only when there is no command
checksGlobalProgramOnly(command, isDefaultCommand) == command = <<>>

\* line 820: check global options first when dealing with default commands
checksGlobal(command, isDefaultCommand) == command = <<>> \/ isDefaultCommand

\* line 839: the returned { scope, optionName, option }
lookupResult(gName, gOption, cName, cOption) ==
  IF gOption.type # "undefined"
    THEN [scope |-> "global", optionName |-> gName, option |-> gOption]
  ELSE IF cOption.type # "undefined"
    THEN [scope |-> "command", optionName |-> cName, option |-> cOption]
  ELSE [scope |-> "undefined", optionName |-> cName, option |-> NoOption]

\* lines 830-838: the lookup in the options of the command
commandLookup(self, command, shortOptionName, gName, gOption) ==
  LET inCommand == gOption.type = "undefined" /\ command # <<>>
      cName     == IF inCommand /\ shortOptionName # <<>>
                     THEN MapGet(MapGet(self.commandShortsMap, command), shortOptionName)
                     ELSE gName
  IN  lookupResult(gName, gOption, cName,
                   IF inCommand /\ cName # <<>>
                     THEN OptionAt(CommandOptions(self.config, command), cName)
                     ELSE NoOption)

\* lines 820-828: the lookup in the global options
globalLookup(self, command, optionName, shortOptionName) ==
  LET inGlobal == checksGlobal(command, self.program.isDefaultCommand)
      gName    == IF inGlobal /\ shortOptionName # <<>>
                    THEN MapGet(self.globalShortsMap, shortOptionName)
                    ELSE optionName
  IN  commandLookup(self, command, shortOptionName, gName,
                    IF inGlobal /\ gName # <<>>
                      THEN OptionAt(self.config.options, gName)
                      ELSE NoOption)

getOption(self, optionName0, shortOptionName, isProgramOption) ==
  globalLookup(self, lookupCommand(self.program, isProgramOption),
               toLowerCase(optionName0), shortOptionName)

(***************************************************************************)
(* #setProgramOption(optionName, optionValue, scope) : the new #program    *)
(***************************************************************************)
setProgramOption(prog, optionName0, optionValue0, scope) ==
  LET negated     == startsWith(optionName0, <<"n", "o", "-">>) /\ optionValue0.t = "boolean"
      optionName  == IF negated THEN sliceFrom(optionName0, 3) ELSE optionName0
      optionValue == IF negated THEN Bool(~optionValue0.b) ELSE optionValue0
  IN  [prog EXCEPT
         !.options        = Put(@, optionName, optionValue),
         !.commandOptions = IF scope = "command" THEN Put(@, optionName, optionValue) ELSE @,
         !.globalOptions  = IF scope = "global" THEN Put(@, optionName, optionValue) ELSE @]

\* one entry of the log of #setProgramOption calls
SetCall(optionName, optionValue, scope, via) ==
  [name |-> optionName, value |-> optionValue, scope |-> scope, via |-> via]


(***************************************************************************)
(* #parseOptionsFromArgs, one iteration of its loop over args.             *)
(* A step result: the new #program, the index of the next iteration,       *)
(* the thrown error (NoError when none) and the #setProgramOption calls.   *)
(***************************************************************************)
StepResult(prog, next, error, sets) ==
  [program |-> prog, next |-> next, error |-> error, sets |-> sets]

\* a stacking test that accepts an option of any type
stackableAnyType(r) == r.optionName # <<>>

\* line 551: may a stacked letter before the last one be set to true
stackable(r) == r.option.type = "boolean" /\ r.optionName # <<>>

\* the loop over the stacked short options before the last one (lines 540-556)
RECURSIVE stackShortOptions(_, _, _, _, _)

\* lines 546-555: one stacked letter, resolved to r
stackLetter(self, arg, letters, isProgramArgs, sets, r) ==
  IF stackable(r)
    THEN stackShortOptions(
           [self EXCEPT !.program = setProgramOption(@, r.optionName, Bool(TRUE), r.scope)],
           arg, Tail(letters), isProgramArgs,
           Append(sets, SetCall(r.optionName, Bool(TRUE), r.scope, "stack")))
    ELSE StepResult(self.program, 0, Error("invalid-option", arg), sets)

stackShortOptions(self, arg, letters, isProgramArgs, sets) ==
  IF letters = <<>> THEN StepResult(self.program, 0, NoError, sets)
  ELSE stackLetter(self, arg, letters, isProgramArgs, sets,
                   getOption(self, <<>>, Head(letters), isProgramArgs))

\* a negation test that accepts every boolean option
negationAnyBoolean(option) == option.type = "boolean"

\* line 591: may the option be addressed as --no-<name>
negationAllowed(option) == option.type = "boolean" /\ option.negatable

\* lines 591-595: the outcome of the lookup r2 of the name without no-
negatedLookup(r2) ==
  IF ~negationAllowed(r2.option)
    THEN [r2 EXCEPT !.option = NoOption]
    ELSE [r2 EXCEPT !.optionName = <<"n", "o", "-">> \o @]

\* lines 584-596: the no- fallback after the lookup r1
negationFallback(self, isProgramArgs, r1) ==
  IF r1.option.type = "undefined" /\ startsWith(r1.optionName, <<"n", "o", "-">>)
    THEN negatedLookup(getOption(self, sliceFrom(r1.optionName, 3), <<>>, isProgramArgs))
    ELSE r1

\* the resolution with the no- fallback (lines 576-596)
resolveOption(self, optionName, isShortOption, isProgramArgs) ==
  negationFallback(self, isProgramArgs,
                   getOption(self, IF isShortOption THEN <<>> ELSE optionName,
                             IF isShortOption THEN optionName ELSE <<>>, isProgramArgs))

\* a look-ahead that compares the next token as written
takesNextArgExact(self, inlineValue, nextArg) ==
  /\ inlineValue.t = "undefined"
  /\ includes(self.truthyValues \o self.falsyValues,
              IF nextArg.t = "undefined" THEN <<>> ELSE nextArg.s)

\* lines 607-610: does a boolean flag take the next token as its value
takesNextArg(self, inlineValue, nextArg) ==
  /\ inlineValue.t = "undefined"
  /\ includes(self.truthyValues \o self.falsyValues,
              IF nextArg.t = "undefined" THEN <<>> ELSE toLowerCase(nextArg.s))

\* lines 625 and 645: #setProgramOption(resolvedOptionName, optionValue, scope)
storeOption(self, sets, r, optionValue, next) ==
  StepResult(setProgramOption(self.program, r.optionName, optionValue, r.scope), next, NoError,
             Append(sets, SetCall(r.optionName, optionValue, r.scope, "flag")))

\* lines 615-626: the boolean value of the text, undefined standing for true
storeBoolean(self, i, sets, r, takesNext, boolText) ==
  IF boolText.t = "undefined"
    THEN storeOption(self, sets, r, Bool(TRUE), IF takesNext THEN i + 2 ELSE i + 1)
  ELSE IF includes(self.truthyValues, toLowerCase(boolText.s))
    THEN storeOption(self, sets, r, Bool(TRUE), IF takesNext THEN i + 2 ELSE i + 1)
  ELSE IF includes(self.falsyValues, toLowerCase(boolText.s))
    THEN storeOption(self, sets, r, Bool(FALSE), IF takesNext THEN i + 2 ELSE i + 1)
  ELSE StepResult(self.program, i, Error("unknown-boolean-value", boolText.s), sets)

\* lines 605-613: a boolean option
takeBoolean(self, i, sets, r, inlineValue, nextArg, takesNext) ==
  storeBoolean(self, i, sets, r, takesNext, IF takesNext THEN nextArg ELSE inlineValue)

\* lines 638-645: the number conversion of the text and the store
storeText(self, i, sets, optionName, r, text, number, next) ==
  IF r.option.type = "number" /\ number.nan
    THEN StepResult(self.program, i, Error("not-a-number", optionName), sets)
  ELSE storeOption(self, sets, r, IF r.option.type = "number" THEN Num(number.n) ELSE text,
                   next)

\* lines 629-636: a string or number option takes the next token when it has
\* no inline value
takeText(self, i, sets, optionName, r, inlineValue, nextArg) ==
  IF inlineValue.t # "undefined"
    THEN storeText(self, i, sets, optionName, r, inlineValue, Number(inlineValue.s), i + 1)
  ELSE IF nextArg.t # "undefined" /\ nextArg.s # <<>>
    THEN storeText(self, i, sets, optionName, r, nextArg, Number(nextArg.s), i + 2)
  ELSE StepResult(self.program, i, Error("missing-value", optionName), sets)

\* a value handling that skips a flag of no declared option
takeValueLenient(self, args, i, sets, optionName, inlineValue, nextArg, r) ==
  IF r.option.type = "undefined" \/ r.optionName = <<>>
    THEN StepResult(self.program, i + 1, NoError, sets)
  ELSE IF r.option.type = "boolean"
    THEN takeBoolean(self, i, sets, r, inlineValue, nextArg,
                     takesNextArg(self, inlineValue, nextArg))
  ELSE takeText(self, i, sets, optionName, r, inlineValue, nextArg)

\* lines 598-646: the resolved option r takes its value
takeValue(self, args, i, sets, optionName, inlineValue, nextArg, r) ==
  IF r.option.type = "undefined" \/ r.optionName = <<>>
    THEN StepResult(self.program, i, Error("unknown-option", args[i]), sets)
  ELSE IF r.option.type = "boolean"
    THEN takeBoolean(self, i, sets, r, inlineValue, nextArg,
                     takesNextArg(self, inlineValue, nextArg))
  ELSE takeText(self, i, sets, optionName, r, inlineValue, nextArg)

\* lines 570-582: the name split from an inline value and resolved
splitValue(self, args, i, isProgramArgs, rawName, isShortOption, sets, eqIndex, optionName) ==
  takeValue(self, args, i, sets, optionName,
            IF eqIndex # -1 THEN Str(sliceFrom(rawName, eqIndex + 1)) ELSE Undefined,
            IF i + 1 <= Len(args) THEN Str(args[i + 1]) ELSE Undefined,
            resolveOption(self, optionName, isShortOption, isProgramArgs))

\* lines 570-646: split name=value, resolve, take the value, store
parseOption(self, args, i, isProgramArgs, rawName, isShortOption, sets) ==
  splitValue(self, args, i, isProgramArgs, rawName, isShortOption, sets,
             indexOf(rawName, "="),
             IF indexOf(rawName, "=") # -1
               THEN slice(rawName, 0, indexOf(rawName, "="))
               ELSE rawName)

\* lines 531-538: the short options of a token -letters[=value]
shortOptionsOf(chars, eqIndex) ==
  IF eqIndex # -1
    THEN slice(chars, 0, eqIndex - 1) \o <<join(sliceFrom(chars, eqIndex - 1))>>
    ELSE chars

\* lines 540-545 and 566-568: after the stacked letters, the last short option
parseLastShort(self, args, i, isProgramArgs, shortOptions, stacked) ==
  IF stacked.error.kind # "none"
    THEN StepResult(self.program, i, stacked.error, stacked.sets)
  ELSE IF shortOptions = <<>>
    THEN StepResult(self.program, i, Error("unknown-option", args[i]), <<>>)
  ELSE parseOption([self EXCEPT !.program = stacked.program], args, i,
                   isProgramArgs, shortOptions[Len(shortOptions)], TRUE, stacked.sets)

\* lines 530-556: a token that starts with one dash
parseShortOptions(self, args, i, isProgramArgs, shortOptions) ==
  parseLastShort(self, args, i, isProgramArgs, shortOptions,
                 stackShortOptions(self, args[i],
                                   SubSeq(shortOptions, 1, Len(shortOptions) - 1),
                                   isProgramArgs, <<>>))

\* a push that puts the token in front of the positionals
pushPositionalFirst(prog, arg) == [prog EXCEPT !.positionals = <<arg>> \o @]

\* line 559: this.#program.positionals?.push(arg)
pushPositional(prog, arg) == [prog EXCEPT !.positionals = Append(@, arg)]

\* one loop iteration (lines 521-646) on args[i], 1-based
parseArg(self, args, i, isProgramArgs) ==
  IF startsWith(args[i], <<"-", "-">>)
    THEN parseOption(self, args, i, isProgramArgs, sliceFrom(args[i], 2), FALSE, <<>>)
  ELSE IF startsWith(args[i], <<"-">>)
    THEN parseShortOptions(self, args, i, isProgramArgs,
                           shortOptionsOf(split(sliceFrom(args[i], 1)),
                                          indexOf(sliceFrom(args[i], 1), "=")))
  ELSE IF self.config.allowPositionals
    THEN StepResult(pushPositional(self.program, args[i]), i + 1, NoError, <<>>)
  ELSE StepResult(self.program, i, Error("unknown-argument", args[i]), <<>>)


(***************************************************************************)
(* #injectHelpOptions (called by the constructor unless disableHelp)       *)
(***************************************************************************)
help == <<"h", "e", "l", "p">>
GlobalScope == <<"g", "l", "o", "b", "a", "l">>

shortTaken(opts) == \E j \in 1..Len(opts) : opts[j].short = <<"h">>

helpOpt(opts) ==
  [ClideOption(help, "boolean") EXCEPT !.short = IF shortTaken(opts) THEN <<>> ELSE <<"h">>]

\* the result: the config with help injected and #systemHelpScopes
injectHelpOptions(cfg) ==
  LET globalInject == ~HasOption(cfg.options, help)
      newOptions   == IF globalInject THEN Append(cfg.options, helpOpt(cfg.options))
                      ELSE cfg.options
      cmdInject(c) == ~HasOption(c.options, help)
      newCommands  == [j \in 1..Len(cfg.commands) |->
                         IF cmdInject(cfg.commands[j])
                           THEN [cfg.commands[j] EXCEPT
                                   !.options = Append(@, helpOpt(cfg.commands[j].options))]
                           ELSE cfg.commands[j]]
  IN  [config |-> [cfg EXCEPT !.options = newOptions, !.commands = newCommands],
       systemHelpScopes |->
         (IF globalInject THEN {GlobalScope} ELSE {})
         \cup {cfg.commands[j].name : j \in {k \in 1..Len(cfg.commands) : cmdInject(cfg.commands[k])}}]


(***************************************************************************)
(* #validateConfig                                                         *)
(***************************************************************************)
LowerLetters == {"a", "b", "c", "d", "e", "f", "g", "h", "i", "j", "k", "l", "m",
                 "n", "o", "p", "q", "r", "s", "t", "u", "v", "w", "x", "y", "z"}
UpperLetters == {"A", "B", "C", "D", "E", "F", "G", "H", "I", "J", "K", "L", "M",
                 "N", "O", "P", "Q", "R", "S", "T", "U", "V", "W", "X", "Y", "Z"}

\* /^[a-z][a-z0-9-_]*$/
nameRegex(name) ==
  /\ name # <<>>
  /\ name[1] \in LowerLetters
  /\ \A k \in 2..Len(name) : name[k] \in LowerLetters \cup Digits \cup {"-", "_"}

\* a test that accepts any text that starts with a letter
shortOptionRegexPrefix(short) == Len(short) >= 1 /\ short[1] \in LowerLetters \cup UpperLetters

\* /^[a-zA-Z]$/
shortOptionRegex(short) == Len(short) = 1 /\ short[1] \in LowerLetters \cup UpperLetters

\* the kind of the error checkName throws, "none" when it returns
checkName(name) ==
  IF name # toLowerCase(name) THEN "name-not-lowercase"
  ELSE IF ~nameRegex(name) THEN "name-invalid"
  ELSE "none"

\* the loop over the options of one scope, from entry j on (lines 435-457, 462-488)
RECURSIVE checkOptions(_, _, _, _)
checkOptions(opts, j, shorts, cmdName) ==
  IF j > Len(opts) THEN [error |-> NoError, shorts |-> shorts]
  ELSE
    LET o       == opts[j]
        shorts2 == IF o.short # <<>> THEN Put(shorts, o.short, o.name) ELSE shorts
        fail(e) == [error |-> [e EXCEPT !.command = cmdName], shorts |-> shorts]
    IN  IF checkName(o.name) # "none" THEN fail(Error(checkName(o.name), o.name))
        ELSE IF o.short # <<>> /\ ~shortOptionRegex(o.short)
          THEN fail(Error("short-invalid", o.short))
        ELSE IF o.short # <<>> /\ Has(shorts, o.short)
          THEN fail(Error("short-duplicate", o.short))
        ELSE IF o.type = "boolean" /\ o.negatable
                /\ HasOption(opts, <<"n", "o", "-">> \o o.name)
          THEN [error |-> [Error("negatable-conflict", o.name) EXCEPT !.command = cmdName],
                shorts |-> shorts2]
        ELSE checkOptions(opts, j + 1, shorts2, cmdName)

\* the loop over the commands, from entry j on (lines 459-489)
RECURSIVE checkCommands(_, _, _)
checkCommands(cmds, j, cmdShorts) ==
  IF j > Len(cmds) THEN [error |-> NoError, commandShortsMap |-> cmdShorts]
  ELSE
    LET c    == cmds[j]
        r    == checkOptions(c.options, 1, <<>>, c.name)
        map2 == IF r.shorts # <<>> THEN Put(cmdShorts, c.name, r.shorts) ELSE cmdShorts
    IN  IF checkName(c.name) # "none"
          THEN [error |-> Error(checkName(c.name), c.name), commandShortsMap |-> cmdShorts]
        ELSE IF r.error.kind # "none"
          THEN [error |-> r.error, commandShortsMap |-> map2]
        ELSE checkCommands(cmds, j + 1, map2)

validateConfig(cfg) ==
  LET g == checkOptions(cfg.options, 1, <<>>, <<>>)
      c == checkCommands(cfg.commands, 1, <<>>)
  IN  IF cfg.defaultCommand # <<>> /\ ~HasCommand(cfg, cfg.defaultCommand)
        THEN [error |-> Error("default-command-not-found", cfg.defaultCommand),
              globalShortsMap |-> <<>>, commandShortsMap |-> <<>>]
      ELSE IF g.error.kind # "none"
        THEN [error |-> g.error, globalShortsMap |-> g.shorts, commandShortsMap |-> <<>>]
      ELSE [error |-> c.error, globalShortsMap |-> g.shorts,
            commandShortsMap |-> c.commandShortsMap]

(***************************************************************************)
(* #splitArgsByCommand : the new #cliArgs and #program                     *)
(***************************************************************************)
\* a command match that compares the token as written
isCommandTokenExact(cfg, arg) == HasCommand(cfg, arg)

\* line 500: is the token a declared command name
isCommandToken(cfg, arg) == HasCommand(cfg, toLowerCase(arg))

\* line 509: is the default command substituted
usesDefaultCommand(cfg, prog) == prog.command = <<>> /\ cfg.defaultCommand # <<>>

splitArgsByCommand(cfg, prog, args) ==
  IF \E k \in 1..Len(args) : isCommandToken(cfg, args[k])
    THEN LET i == CHOOSE k \in 1..Len(args) :
                    isCommandToken(cfg, args[k])
                    /\ \A j \in 1..(k - 1) : ~isCommandToken(cfg, args[j])
         IN  [cliArgs |-> [programArgs |-> SubSeq(args, 1, i - 1),
                           commandArgs |-> SubSeq(args, i + 1, Len(args))],
              program |-> [prog EXCEPT !.command = toLowerCase(args[i])]]
  ELSE IF usesDefaultCommand(cfg, prog)
    THEN [cliArgs |-> [programArgs |-> <<>>, commandArgs |-> args],
          program |-> [prog EXCEPT !.isDefaultCommand = TRUE,
                                   !.command = cfg.defaultCommand]]
  ELSE [cliArgs |-> [programArgs |-> args, commandArgs |-> <<>>], program |-> prog]


(***************************************************************************)
(* #validateOption : the error it throws, NoError when it returns          *)
(***************************************************************************)
\* the validate predicates the configurations of this model use
\*   "gt2"      : (n) => n > 2 || "Must be > 2"
\*   "nonempty" : (s) => s.length > 0
validateFn(id, value) ==
  CASE id = "gt2"      -> IF value.n > 2 THEN Bool(TRUE) ELSE Str(<<"M", "u", "s", "t">>)
    [] id = "nonempty" -> Bool(Len(value.s) > 0)
    [] OTHER           -> Bool(TRUE)

validateOption(option, optionName, optionValue) ==
  IF option.type = "boolean" /\ optionValue.t # "boolean"
    THEN Error("not-a-boolean", optionName)
  ELSE IF option.type = "number" /\ optionValue.t # "number"
    THEN Error("not-a-number", optionName)
  ELSE IF option.type = "string" /\ optionValue.t # "string"
    THEN Error("not-a-string", optionName)
  ELSE IF option.hasChoices /\ ~includes(option.choices, optionValue)
    THEN Error("invalid-choice", optionName)
  ELSE IF option.validate # ""
    THEN LET validation == validateFn(option.validate, optionValue)
         IN  IF validation.t = "string" THEN Error("validate-message", validation.s)
             ELSE IF ~validation.b THEN Error("invalid-value", optionName)
             ELSE NoError
  ELSE NoError

(***************************************************************************)
(* #finalizeOptions, first loop: env, default, required (lines 659-703)    *)
(***************************************************************************)
scopeOptions(self, scope) ==
  IF scope = "global" THEN self.config.options
  ELSE CommandOptions(self.config, self.program.command)

\* the value an option gets from env or default, Undefined when none (668-687)
envOrDefault(self, env, option) ==
  LET envVal == IF option.env # "" THEN Get(env, option.env) ELSE Undefined
      value  == IF envVal.t # "undefined" THEN envVal ELSE option.default
      lower  == toLowerCase(value.s)
      number == Number(value.s)
  IN  IF option.type = "boolean" /\ value.t # "undefined" /\ value.t # "boolean"
        THEN IF includes(self.truthyValues, lower) \/ Len(lower) = 0 THEN Bool(TRUE)
             ELSE IF includes(self.falsyValues, lower) THEN Bool(FALSE)
             ELSE Undefined
      ELSE IF option.type = "number" /\ value.t # "undefined" /\ value.t # "number"
        THEN IF number.nan THEN Undefined ELSE Num(number.n)
      ELSE value

\* is the option skipped as already set (line 666)
alreadySet(prog, optionName) == Get(prog.options, optionName).t # "undefined"

FinalizeResult(prog, error, queue, sets) ==
  [program |-> prog, error |-> error, optionsToPrompt |-> queue, sets |-> sets]

RECURSIVE applyDefaults(_, _, _, _, _, _)
applyDefaults(self, env, scope, j, queue, sets) ==
  LET opts   == scopeOptions(self, scope)
      option == opts[j]
      value  == envOrDefault(self, env, option)
      cont(self2, queue2, sets2) == applyDefaults(self2, env, scope, j + 1, queue2, sets2)
  IN  IF j > Len(opts)
        THEN IF scope = "global" THEN applyDefaults(self, env, "command", 1, queue, sets)
             ELSE FinalizeResult(self.program, NoError, queue, sets)
      ELSE IF alreadySet(self.program, option.name) THEN cont(self, queue, sets)
      ELSE IF value.t # "undefined"
        THEN cont([self EXCEPT !.program = setProgramOption(@, option.name, value, scope)],
                  queue, Append(sets, SetCall(option.name, value, scope, "default")))
      ELSE IF option.required
        THEN IF self.config.disablePrompts
               THEN FinalizeResult(self.program,
                      [Error("missing-required-option", option.name) EXCEPT
                         !.command = IF scope = "global" THEN <<>> ELSE self.program.command],
                      queue, sets)
               ELSE cont(self, [queue EXCEPT ![scope] = Append(@, option.name)], sets)
      ELSE cont(self, queue, sets)

(***************************************************************************)
(* #finalizeOptions, second loop: validation (lines 705-717)               *)
(***************************************************************************)
RECURSIVE validateOptions(_, _, _)
validateOptions(self, scope, j) ==
  LET entries == IF scope = "global" THEN self.program.globalOptions
                 ELSE self.program.commandOptions
      r       == getOption(self, entries[j].k, <<>>, scope = "global")
      e       == validateOption(r.option, entries[j].k, entries[j].v)
  IN  IF j > Len(entries)
        THEN IF scope = "global" THEN validateOptions(self, "command", 1) ELSE NoError
      ELSE IF r.option.type = "undefined" THEN validateOptions(self, scope, j + 1)
      ELSE IF e.kind # "none" THEN e
      ELSE validateOptions(self, scope, j + 1)


(***************************************************************************)
(* #checkForHelp and the lines showHelp prints                             *)
(***************************************************************************)
\* JavaScript truthiness of a value
truthy(v) ==
  \/ v.t = "boolean" /\ v.b
  \/ v.t = "string" /\ v.s # <<>>
  \/ v.t = "number" /\ v.n # 0

\* the head of what showHelp(commandName) prints: which help text it is
HelpText(commandName) == [kind |-> "help", command |-> commandName, error |-> NoError]
\* the line  console.error(`Error: ${error.message}`)
ErrorLine(e) == [kind |-> "error", command |-> <<>>, error |-> e]

\* the rows of a table, hidden options included
allRows(items) == items

\* lines 270-271: the rows of a table are its options that are not hidden
visibleRows(items) == SelectSeq(items, LAMBDA opt : ~opt.hidden)

\* renderTable (lines 268-346): the section it prints, nothing without rows
renderTable(header, commandName, rows) ==
  IF rows = <<>> THEN <<>>
  ELSE <<[header |-> header, command |-> commandName, rows |-> rows]>>

\* lines 378-402: the command list of root help, the default command tagged
commandList(cfg) ==
  [j \in 1..Len(cfg.commands) |->
     [name |-> cfg.commands[j].name,
      default |-> cfg.commands[j].name = cfg.defaultCommand]]

\* showHelp (lines 222-403): the sections and the command list it prints
showHelp(cfg, commandName) ==
  [kind |-> "help", command |-> commandName, error |-> NoError,
   sections |->
     IF commandName # <<>>
       THEN renderTable("Command Options", commandName,
                        visibleRows(CommandOptions(cfg, commandName)))
              \o renderTable("Global Options", <<>>, visibleRows(cfg.options))
       ELSE renderTable("Global Options", <<>>, visibleRows(cfg.options))
              \o (IF cfg.defaultCommand # <<>>
                    THEN renderTable("Default Command Options", cfg.defaultCommand,
                                     visibleRows(CommandOptions(cfg, cfg.defaultCommand)))
                    ELSE <<>>),
   commands |-> IF commandName = <<>> THEN commandList(cfg) ELSE <<>>]

\* a help check that waits for the required global options to have values
checkForHelpWhenComplete(self) ==
  IF \/ ~truthy(Get(self.program.options, help))
     \/ \E j \in 1..Len(self.config.options) :
          /\ self.config.options[j].required
          /\ ~Has(self.program.options, self.config.options[j].name)
    THEN "none"
  ELSE IF /\ ~self.program.isDefaultCommand
          /\ self.program.command # <<>>
          /\ truthy(Get(self.program.commandOptions, help))
          /\ self.program.command \in self.systemHelpScopes
    THEN "command"
  ELSE IF GlobalScope \in self.systemHelpScopes THEN "global"
  ELSE "none"

\* the scope whose help is shown: "command", "global", or "none" (no exit)
checkForHelp(self) ==
  IF ~truthy(Get(self.program.options, help)) THEN "none"
  ELSE IF /\ ~self.program.isDefaultCommand
          /\ self.program.command # <<>>
          /\ truthy(Get(self.program.commandOptions, help))
          /\ self.program.command \in self.systemHelpScopes
    THEN "command"
  ELSE IF GlobalScope \in self.systemHelpScopes THEN "global"
  ELSE "none"

(***************************************************************************)
(* Inputs: tokens, configurations, environments                            *)
(***************************************************************************)
Long(name) == <<"-", "-">> \o name
Short(letters) == <<"-">> \o letters
WithValue(flag, text) == flag \o <<"=">> \o text

no(name) == <<"n", "o", "-">> \o name

\* option and command names
verbose == <<"v", "e", "r", "b", "o", "s", "e">>
force   == <<"f", "o", "r", "c", "e">>
user    == <<"u", "s", "e", "r">>
mode    == <<"m", "o", "d", "e">>
debug   == <<"d", "e", "b", "u", "g">>
port    == <<"p", "o", "r", "t">>
retry   == <<"r", "e", "t", "r", "y">>
retries == <<"r", "e", "t", "r", "i", "e", "s">>
output  == <<"o", "u", "t">>
cache   == <<"c", "a", "c", "h", "e">>
color   == <<"c", "o", "l", "o", "r">>
minify  == <<"m", "i", "n", "i", "f", "y">>
target  == <<"t", "a", "r", "g", "e", "t">>
level   == <<"l", "e", "v", "e", "l">>
token   == <<"t", "o", "k", "e", "n">>
key     == <<"k", "e", "y">>
build   == <<"b", "u", "i", "l", "d">>
deploy  == <<"d", "e", "p", "l", "o", "y">>
start   == <<"s", "t", "a", "r", "t">>
run     == <<"r", "u", "n">>
region  == <<"r", "e", "g", "i", "o", "n">>
host    == <<"h", "o", "s", "t">>

\* the default #truthyValues / #falsyValues (lines 18-19)
DefaultTruthy == << <<"t", "r", "u", "e">>, <<"y", "e", "s">>, <<"1">> >>
DefaultFalsy  == << <<"f", "a", "l", "s", "e">>, <<"n", "o">>, <<"0">> >>

Scenario(cfg, tokens, envs) ==
  [config |-> cfg, tokens |-> tokens, envs |-> envs,
   truthyValues |-> DefaultTruthy, falsyValues |-> DefaultFalsy]

EnvEntry(name, text) == [k |-> name, v |-> Str(text)]

\* options bound to env variables with defaults (README "Option Precedence")
EnvScenario ==
  Scenario(
    [ClideConfig EXCEPT
       !.disableHelp = TRUE,
       !.options = <<
         [ClideOption(mode, "string") EXCEPT
            !.short = <<"m">>, !.default = Str(<<"p">>), !.env = "APP_MODE"],
         [ClideOption(debug, "boolean") EXCEPT
            !.default = Bool(FALSE), !.env = "APP_DEBUG"],
         [ClideOption(port, "number") EXCEPT
            !.default = Num(8), !.env = "PORT"] >>],
    {Long(mode), WithValue(Long(mode), <<"d">>), <<"d">>, Long(debug),
     WithValue(Long(debug), <<"n", "o">>), WithValue(Long(port), <<"5">>), <<"7">>},
    {<<>>,
     <<EnvEntry("APP_MODE", <<"s">>), EnvEntry("APP_DEBUG", <<"T", "r", "u", "e">>),
       EnvEntry("PORT", <<"9">>)>>,
     <<EnvEntry("APP_DEBUG", <<>>), EnvEntry("PORT", <<"x">>)>>,
     <<EnvEntry("APP_DEBUG", <<"m", "a", "y", "b", "e">>), EnvEntry("APP_MODE", <<>>)>>})

\* boolean options whose own names begin with no-
NoPrefixScenario ==
  Scenario(
    [ClideConfig EXCEPT
       !.disableHelp = TRUE,
       !.options = <<
         ClideOption(cache, "boolean"),
         [ClideOption(no(cache), "boolean") EXCEPT
            !.default = Bool(FALSE), !.env = "NO_CACHE"],
         [ClideOption(no(color), "boolean") EXCEPT !.required = TRUE] >>],
    {Long(cache), Long(no(cache)), WithValue(Long(no(cache)), <<"n", "o">>),
     Long(no(color))},
    {<<>>, <<EnvEntry("NO_CACHE", <<"1">>)>>})

\* stacked short flags (README "Short Flag Stacking"), positionals allowed
StackScenario ==
  Scenario(
    [ClideConfig EXCEPT
       !.disableHelp = TRUE,
       !.allowPositionals = TRUE,
       !.options = <<
         [ClideOption(verbose, "boolean") EXCEPT !.short = <<"v">>],
         [ClideOption(force, "boolean") EXCEPT !.short = <<"f">>],
         [ClideOption(user, "string") EXCEPT !.short = <<"u">>] >>],
    {Short(<<"v", "f", "u">>), Short(<<"v", "f">>), Short(<<"v", "u", "f">>),
     Short(<<"f", "q", "v">>), WithValue(Short(<<"v", "f", "u">>), <<"a">>),
     WithValue(Short(<<"f", "v">>), <<"x">>), <<"a">>, <<"N", "o">>,
     Long(force)},
    {<<>>})

\* custom truthy / falsy values (constructor parameters)
CustomScenario ==
  [Scenario(
     [ClideConfig EXCEPT
        !.disableHelp = TRUE,
        !.allowPositionals = TRUE,
        !.options = << [ClideOption(verbose, "boolean") EXCEPT !.short = <<"v">>] >>],
     {Long(verbose), WithValue(Long(verbose), <<"o", "k">>), <<"O", "K">>,
      <<"n", "o", "p", "e">>, <<"y", "e", "s">>, WithValue(Short(<<"v">>), <<"1">>)},
     {<<>>})
   EXCEPT !.truthyValues = << <<"o", "k">> >>, !.falsyValues = << <<"n", "o", "p", "e">> >>]

\* negatable and non-negatable options
NegScenario ==
  Scenario(
    [ClideConfig EXCEPT
       !.disableHelp = TRUE,
       !.options = <<
         [ClideOption(retry, "boolean") EXCEPT !.negatable = TRUE, !.default = Bool(TRUE)],
         [ClideOption(verbose, "boolean") EXCEPT !.short = <<"v">>],
         ClideOption(output, "string") >>],
    {Long(retry), Long(no(retry)), WithValue(Long(no(retry)), <<"f", "a", "l", "s", "e">>),
     <<"-", "-", "N", "O", "-", "R", "e", "t", "r", "y">>, Long(no(verbose)),
     Long(no(output)), <<"n", "o">>, Long(verbose)},
    {<<>>})


\* commands with isolated options (README "Commands", "Strict Ordering")
CommandScenario ==
  Scenario(
    [ClideConfig EXCEPT
       !.disableHelp = TRUE,
       !.options = <<
         [ClideOption(verbose, "boolean") EXCEPT !.short = <<"v">>],
         [ClideOption(output, "string") EXCEPT !.short = <<"o">>] >>,
       !.commands = <<
         ClideCommand(build, <<
           [ClideOption(minify, "boolean") EXCEPT !.short = <<"m">>],
           [ClideOption(target, "string") EXCEPT !.short = <<"t">>] >>),
         ClideCommand(deploy, <<
           [ClideOption(target, "string") EXCEPT !.short = <<"t">>] >>) >>],
    {Long(verbose), Long(output), build, <<"D", "e", "p", "l", "o", "y">>,
     Long(minify), Short(<<"t">>), Short(<<"v">>), Short(<<"v", "m">>), <<"x">>},
    {<<>>})

\* a default command, auto-injected help, one name declared in both scopes
DefaultScenario ==
  Scenario(
    [ClideConfig EXCEPT
       !.defaultCommand = start,
       !.options = <<
         [ClideOption(verbose, "boolean") EXCEPT !.short = <<"v">>],
         [ClideOption(level, "number") EXCEPT !.short = <<"l">>, !.default = Num(1)] >>,
       !.commands = <<
         ClideCommand(start, <<
           [ClideOption(port, "number") EXCEPT !.short = <<"p">>],
           [ClideOption(level, "number") EXCEPT !.default = Num(2)] >>),
         ClideCommand(build, <<
           [ClideOption(minify, "boolean") EXCEPT !.short = <<"m">>] >>) >>],
    {Short(<<"v">>), Short(<<"p">>), <<"3">>, start, build, Long(help),
     WithValue(Long(level), <<"4">>), Short(<<"m">>)},
    {<<>>})

\* string and number options, positionals allowed (tests "String & Number
\* Options"); the tokens include the empty string and a bare --
ValueScenario ==
  Scenario(
    [ClideConfig EXCEPT
       !.disableHelp = TRUE,
       !.allowPositionals = TRUE,
       !.options = <<
         [ClideOption(output, "string") EXCEPT !.short = <<"o">>],
         [ClideOption(retries, "number") EXCEPT !.short = <<"r">>] >>],
    {Long(output), WithValue(Long(output), <<"a", "=", "b">>), Long(retries),
     WithValue(Long(retries), <<"5">>), WithValue(Long(retries), <<>>),
     WithValue(Long(retries), <<"x">>), <<"7">>, Short(<<"r">>), <<>>, <<"-", "-">>},
    {<<>>})

\* positionals in both segments of a command line (tests "Positional
\* Arguments", README "Positional Arguments & Terminator")
PositionalScenario ==
  Scenario(
    [ClideConfig EXCEPT
       !.disableHelp = TRUE,
       !.allowPositionals = TRUE,
       !.options = <<
         [ClideOption(verbose, "boolean") EXCEPT !.short = <<"v">>],
         ClideOption(output, "string") >>,
       !.commands = <<
         ClideCommand(build, <<
           [ClideOption(target, "string") EXCEPT !.short = <<"t">>] >>) >>],
    {Short(<<"v">>), Long(output), build, Short(<<"t">>), <<"a">>, <<"b">>,
     <<"-", "-">>, Short(<<"x">>)},
    {<<>>})

\* choices and a validate predicate (tests "Validation & Choices"), values
\* from flags, env, defaults and prompts, under a default command
ValidationScenario ==
  Scenario(
    [ClideConfig EXCEPT
       !.disableHelp = TRUE,
       !.defaultCommand = start,
       !.options = <<
         [ClideOption(region, "string") EXCEPT
            !.hasChoices = TRUE, !.choices = <<Str(<<"u">>), Str(<<"e">>)>>,
            !.env = "REGION", !.default = Str(<<"u">>)],
         [ClideOption(port, "number") EXCEPT !.validate = "gt2", !.required = TRUE],
         ClideOption(mode, "string") >>,
       !.commands = <<
         ClideCommand(start, <<
           [ClideOption(mode, "string") EXCEPT
              !.hasChoices = TRUE, !.choices = <<Str(<<"a">>), Str(<<"b">>)>>,
              !.env = "MODE", !.default = Str(<<"a">>)] >>) >>],
    {WithValue(Long(region), <<"e">>), WithValue(Long(region), <<"x">>),
     WithValue(Long(port), <<"5">>), WithValue(Long(port), <<"1">>), start,
     WithValue(Long(mode), <<"b">>), WithValue(Long(mode), <<"z">>)},
    {<<>>, <<EnvEntry("REGION", <<"x">>)>>, <<EnvEntry("MODE", <<"z">>)>>,
     <<EnvEntry("REGION", <<"e">>), EnvEntry("MODE", <<"b">>)>>})

\* auto-injected help in the global scope and in one command, a help option
\* of the user's own in the other command (tests "Help System")
HelpScenario ==
  Scenario(
    [ClideConfig EXCEPT
       !.options = << [ClideOption(verbose, "boolean") EXCEPT !.short = <<"v">>] >>,
       !.commands = <<
         ClideCommand(build, << [ClideOption(minify, "boolean") EXCEPT !.short = <<"m">>] >>),
         ClideCommand(deploy, << ClideOption(help, "boolean") >>) >>],
    {Long(help), Short(<<"h">>), WithValue(Long(help), <<"f", "a", "l", "s", "e">>),
     build, deploy, Short(<<"v">>), <<"x">>},
    {<<>>})

\* throwOnError set (README "Error Handling"), help enabled or disabled
ThrowScenario(disableHelp) ==
  Scenario(
    [ClideConfig EXCEPT
       !.throwOnError = TRUE,
       !.disableHelp = disableHelp,
       !.options = <<
         [ClideOption(verbose, "boolean") EXCEPT !.short = <<"v">>],
         [ClideOption(port, "number") EXCEPT !.validate = "gt2"] >>],
    {Short(<<"v">>), Long(debug), <<"x">>, WithValue(Long(port), <<"1">>),
     WithValue(Long(port), <<"5">>)},
    {<<>>})

\* configurations #validateConfig throws on (tests "Configuration
\* Validation"), one rule broken in each
RejectedConfigs ==
  LET v   == [ClideOption(verbose, "boolean") EXCEPT !.short = <<"v">>]
      req == [ClideOption(token, "string") EXCEPT !.required = TRUE]
      one(o) == [ClideConfig EXCEPT !.options = <<req, o>>]
      cmd(opts) == [ClideConfig EXCEPT !.options = <<v>>,
                                       !.commands = <<ClideCommand(build, opts)>>]
  IN  {[ClideConfig EXCEPT !.defaultCommand = <<"g", "h", "o", "s", "t">>, !.options = <<v>>],
       one(ClideOption(<<"V", "e", "r", "b", "o", "s", "e">>, "boolean")),
       one(ClideOption(<<"1", "f", "l", "a", "g">>, "boolean")),
       one(ClideOption(<<"a", ".", "b">>, "boolean")),
       [ClideConfig EXCEPT !.options = <<v>>,
          !.commands = <<ClideCommand(<<"B", "u", "i", "l", "d">>, <<>>)>>],
       [ClideConfig EXCEPT !.options = <<v>>,
          !.commands = <<ClideCommand(<<"_", "b">>, <<>>)>>],
       one([ClideOption(verbose, "boolean") EXCEPT !.short = <<"v", "v">>]),
       one([ClideOption(verbose, "boolean") EXCEPT !.short = <<"1">>]),
       cmd(<<[ClideOption(minify, "boolean") EXCEPT !.short = <<"-">>]>>),
       [ClideConfig EXCEPT !.options = <<v, [ClideOption(debug, "boolean") EXCEPT !.short = <<"v">>]>>],
       cmd(<<[ClideOption(minify, "boolean") EXCEPT !.short = <<"m">>],
             [ClideOption(mode, "string") EXCEPT !.short = <<"m">>]>>),
       [ClideConfig EXCEPT !.options = <<[ClideOption(retry, "boolean") EXCEPT !.negatable = TRUE],
                                          ClideOption(no(retry), "boolean")>>],
       cmd(<<ClideOption(no(cache), "string"),
             [ClideOption(cache, "boolean") EXCEPT !.negatable = TRUE]>>)}

\* configurations close to the rejected ones that #validateConfig accepts
AcceptedConfigs ==
  LET v   == [ClideOption(verbose, "boolean") EXCEPT !.short = <<"v">>]
      cmd(opts) == [ClideConfig EXCEPT !.options = <<v>>,
                                       !.commands = <<ClideCommand(build, opts)>>]
  IN  {cmd(<<[ClideOption(minify, "boolean") EXCEPT !.short = <<"v">>]>>),
       [ClideConfig EXCEPT
          !.options = <<v, [ClideOption(retry, "boolean") EXCEPT !.negatable = TRUE]>>,
          !.commands = <<ClideCommand(build, <<ClideOption(no(retry), "boolean")>>)>>],
       cmd(<<[ClideOption(minify, "boolean") EXCEPT !.short = <<"V">>],
             ClideOption(<<"a", "-", "1", "_">>, "boolean")>>),
       [ClideConfig EXCEPT !.defaultCommand = build, !.options = <<v>>,
          !.commands = <<ClideCommand(build, <<ClideOption(minify, "boolean")>>)>>]}

ConfigScenarios ==
  {Scenario(cfg, {Short(<<"v">>), build, Long(help)}, {<<>>}) :
     cfg \in RejectedConfigs \cup AcceptedConfigs}

\* a user option with the short alias h in the global scope (test
\* "auto-generated help flag does not conflict with user 'h' flag")
GlobalShortHScenario ==
  Scenario(
    [ClideConfig EXCEPT
       !.options = << [ClideOption(host, "string") EXCEPT !.short = <<"h">>] >>,
       !.commands = <<
         ClideCommand(build, << [ClideOption(minify, "boolean") EXCEPT !.short = <<"m">>] >>) >>],
    {Short(<<"h">>), <<"l">>, Long(help), build, WithValue(Short(<<"h">>), <<"l">>)},
    {<<>>})

\* a user option with the short alias h in a command that is also the
\* default command
CommandShortHScenario ==
  Scenario(
    [ClideConfig EXCEPT
       !.defaultCommand = start,
       !.options = << [ClideOption(verbose, "boolean") EXCEPT !.short = <<"v">>] >>,
       !.commands = <<
         ClideCommand(start, << [ClideOption(host, "string") EXCEPT !.short = <<"h">>] >>) >>],
    {Short(<<"h">>), <<"l">>, Long(help), start, WithValue(Short(<<"h">>), <<"l">>)},
    {<<>>})

\* env texts that cannot be coerced, for a required and an optional option
\* that both declare a default; prompts enabled or disabled
UnresolvedEnvScenario(disablePrompts) ==
  Scenario(
    [ClideConfig EXCEPT
       !.disableHelp = TRUE,
       !.disablePrompts = disablePrompts,
       !.options = <<
         [ClideOption(debug, "boolean") EXCEPT
            !.default = Bool(TRUE), !.env = "APP_DEBUG"],
         [ClideOption(port, "number") EXCEPT
            !.required = TRUE, !.default = Num(8), !.env = "PORT"] >>],
    {WithValue(Long(port), <<"5">>), Long(debug)},
    {<<>>, <<EnvEntry("PORT", <<"9">>), EnvEntry("APP_DEBUG", <<"N", "o">>)>>,
     <<EnvEntry("PORT", <<"x">>), EnvEntry("APP_DEBUG", <<"m", "a", "y", "b", "e">>)>>})

\* hidden options in the global scope and in the default command
HiddenScenario ==
  Scenario(
    [ClideConfig EXCEPT
       !.defaultCommand = start,
       !.options = <<
         [ClideOption(token, "string") EXCEPT !.hidden = TRUE],
         [ClideOption(verbose, "boolean") EXCEPT !.short = <<"v">>] >>,
       !.commands = <<
         ClideCommand(build, << [ClideOption(minify, "boolean") EXCEPT !.hidden = TRUE] >>),
         ClideCommand(start, <<
           [ClideOption(port, "number") EXCEPT !.short = <<"p">>],
           [ClideOption(debug, "boolean") EXCEPT !.hidden = TRUE] >>) >>],
    {Long(help), build, start, WithValue(Long(token), <<"a">>), Long(debug), Long(minify)},
    {<<>>})

\* a required option of the default command whose name the global scope
\* declares too, and a second required option after it
DefaultRequiredScenario ==
  Scenario(
    [ClideConfig EXCEPT
       !.disableHelp = TRUE,
       !.defaultCommand = start,
       !.options = << ClideOption(mode, "string"),
                      [ClideOption(token, "string") EXCEPT !.required = TRUE] >>,
       !.commands = <<
         ClideCommand(start, <<
           [ClideOption(mode, "string") EXCEPT
              !.required = TRUE, !.hasChoices = TRUE,
              !.choices = <<Str(<<"a">>), Str(<<"b">>)>>],
           [ClideOption(port, "number") EXCEPT !.required = TRUE] >>) >>],
    {start, WithValue(Long(mode), <<"a">>), WithValue(Long(token), <<"t">>)},
    {<<>>})

\* a required global option whose name a command declares too, with a
\* default there
ShadowScenario ==
  Scenario(
    [ClideConfig EXCEPT
       !.disableHelp = TRUE,
       !.options = << [ClideOption(token, "string") EXCEPT !.required = TRUE] >>,
       !.commands = <<
         ClideCommand(build, <<
           [ClideOption(token, "string") EXCEPT !.default = Str(<<"d">>)] >>) >>],
    {build, WithValue(Long(token), <<"t">>)},
    {<<>>})

\* auto-injected help next to a required option, an option with a default
\* and an env variable, and a command with a required option
RequiredHelpScenario ==
  Scenario(
    [ClideConfig EXCEPT
       !.options = <<
         [ClideOption(token, "string") EXCEPT !.required = TRUE],
         [ClideOption(level, "number") EXCEPT !.default = Num(1), !.env = "LEVEL"] >>,
       !.commands = <<
         ClideCommand(run, << [ClideOption(output, "string") EXCEPT !.required = TRUE] >>) >>],
    {Long(help), run, Long(debug), WithValue(Long(token), <<"t">>)},
    {<<>>, <<EnvEntry("LEVEL", <<"2">>)>>})

\* required options in both scopes; prompts enabled or disabled
RequiredConfig(disablePrompts) ==
  [ClideConfig EXCEPT
     !.disableHelp = TRUE,
     !.disablePrompts = disablePrompts,
     !.options = <<
       [ClideOption(token, "string") EXCEPT !.required = TRUE],
       [ClideOption(key, "string") EXCEPT !.required = TRUE, !.env = "KEY"],
       [ClideOption(level, "number") EXCEPT !.default = Num(1)] >>,
     !.commands = <<
       ClideCommand(run, <<
         [ClideOption(output, "string") EXCEPT !.required = TRUE],
         [ClideOption(level, "number") EXCEPT !.required = TRUE] >>) >>]

RequiredScenario(disablePrompts) ==
  Scenario(RequiredConfig(disablePrompts),
    {run, WithValue(Long(token), <<"t">>), WithValue(Long(key), <<"k">>),
     WithValue(Long(output), <<"o">>), WithValue(Long(level), <<"3">>)},
    {<<>>, <<EnvEntry("KEY", <<"e">>)>>})

Scenarios ==
  {EnvScenario, NoPrefixScenario, StackScenario, CustomScenario, NegScenario,
   CommandScenario, DefaultScenario, RequiredScenario(FALSE), RequiredScenario(TRUE),
   ValueScenario, PositionalScenario, ValidationScenario, HelpScenario,
   ThrowScenario(FALSE), ThrowScenario(TRUE), GlobalShortHScenario,
   CommandShortHScenario, UnresolvedEnvScenario(FALSE), UnresolvedEnvScenario(TRUE),
   HiddenScenario, DefaultRequiredScenario, ShadowScenario, RequiredHelpScenario}
    \cup ConfigScenarios

\* the argument lists of a scenario
ArgLists(tokens) == UNION {[1..n -> tokens] : n \in 0..MaxArgs}

\* what a prompt collaborator may answer
PromptAnswers == {Str(<<"a">>), Num(5), Bool(TRUE)}

(***************************************************************************)
(* State                                                                   *)
(***************************************************************************)
VARIABLES
  callerConfig,      \* the config object the caller passed
  args,              \* #args
  env,               \* #env
  truthyValues,      \* #truthyValues
  falsyValues,       \* #falsyValues
  config,            \* #config
  globalShortsMap,   \* #globalShortsMap
  commandShortsMap,  \* #commandShortsMap
  systemHelpScopes,  \* #systemHelpScopes
  program,           \* #program
  cliArgs,           \* #cliArgs
  pc,                \* position in parseConfig
  argIndex,          \* loop index i of #parseOptionsFromArgs, 1-based
  optionsToPrompt,   \* local of #finalizeOptions
  promptIndex,       \* number of queued options already iterated
  inFlight,          \* the promptAsync call being awaited
  outcome,           \* how parseConfig ended
  stdout,            \* lines printed (error line, help text)
  setLog,            \* #setProgramOption calls, in order
  promptLog,         \* promptAsync calls, in order
  promptOption,      \* #defaultPromptAsync: the option it was called with
  promptPc,          \* #defaultPromptAsync: position in its loop
  attempt,           \* #defaultPromptAsync: iterations of the loop begun
  rlOpen,            \* readline interfaces created and not yet closed
  promptValue,       \* what #defaultPromptAsync returned
  promptError,       \* what #defaultPromptAsync threw
  consoleErrors,     \* the console.error lines of #defaultPromptAsync
  invocation,        \* 1 for the first parser built from the config object, 2 for the second
  firstRun           \* how the first invocation ended

\* the state of the default prompt
terminal == <<promptOption, promptPc, attempt, rlOpen, promptValue, promptError, consoleErrors>>

vars == <<callerConfig, args, env, truthyValues, falsyValues, config, globalShortsMap,
          commandShortsMap, systemHelpScopes, program, cliArgs, pc, argIndex,
          optionsToPrompt, promptIndex, inFlight, outcome, stdout, setLog, promptLog,
          terminal, invocation, firstRun>>

\* what the caller keeps of its invocations
session == <<invocation, firstRun>>

inputs == <<args, env, truthyValues, falsyValues>>

\* the parser instance as the operators above read it
Self ==
  [config |-> config, program |-> program, globalShortsMap |-> globalShortsMap,
   commandShortsMap |-> commandShortsMap, systemHelpScopes |-> systemHelpScopes,
   truthyValues |-> truthyValues, falsyValues |-> falsyValues]

NewProgram ==
  [command |-> <<>>, isDefaultCommand |-> FALSE, options |-> <<>>, globalOptions |-> <<>>,
   commandOptions |-> <<>>, hasPositionals |-> FALSE, positionals |-> <<>>]

NoCall == [name |-> <<>>, option |-> NoOption, scope |-> "undefined",
           queuedName |-> <<>>, queuedScope |-> "undefined", program |-> NewProgram]

\* what is seen of an invocation that ended
Ended(o, printed, prog, prompts) ==
  [outcome |-> o, stdout |-> printed, program |-> prog, promptLog |-> prompts]

Outcome(kind, code, error) == [kind |-> kind, code |-> code, error |-> error]
Running == Outcome("running", -1, NoError)
NoInvocation == Ended(Running, <<>>, NewProgram, <<>>)

Init ==
  /\ \E sc \in Scenarios :
       /\ callerConfig = sc.config
       /\ args \in ArgLists(sc.tokens)
       /\ env \in sc.envs
       /\ truthyValues = sc.truthyValues
       /\ falsyValues = sc.falsyValues
  /\ config = callerConfig
  /\ globalShortsMap = <<>>
  /\ commandShortsMap = <<>>
  /\ systemHelpScopes = {}
  /\ program = NewProgram
  /\ cliArgs = [programArgs |-> <<>>, commandArgs |-> <<>>]
  /\ pc = "new"
  /\ argIndex = 1
  /\ optionsToPrompt = [global |-> <<>>, command |-> <<>>]
  /\ promptIndex = 0
  /\ inFlight = NoCall
  /\ outcome = Running
  /\ stdout = <<>>
  /\ setLog = <<>>
  /\ promptLog = <<>>
  /\ promptOption = NoOption
  /\ promptPc = "idle"
  /\ attempt = 0
  /\ rlOpen = 0
  /\ promptValue = Undefined
  /\ promptError = NoError
  /\ consoleErrors = <<>>
  /\ invocation = 1
  /\ firstRun = NoInvocation


(***************************************************************************)
(* Actions                                                                 *)
(***************************************************************************)
\* constructor (lines 107-136); the command objects stay shared with the caller
Constructor ==
  /\ pc = "new"
  /\ LET copy     == callerConfig
         injected == injectHelpOptions(copy)
     IN  /\ config' = IF copy.disableHelp THEN copy ELSE injected.config
         /\ systemHelpScopes' = IF copy.disableHelp THEN {} ELSE injected.systemHelpScopes
  /\ callerConfig' = [callerConfig EXCEPT !.commands = config'.commands]
  /\ program' = [program EXCEPT !.hasPositionals = callerConfig.allowPositionals]
  /\ pc' = "validateConfig"
  /\ UNCHANGED <<session, terminal, inputs, globalShortsMap, commandShortsMap, cliArgs, argIndex,
                 optionsToPrompt, promptIndex, inFlight, outcome, stdout, setLog, promptLog>>

\* parseConfig line 173: an error here is outside the try block
ValidateConfig ==
  /\ pc = "validateConfig"
  /\ LET r == validateConfig(config)
     IN  /\ globalShortsMap' = r.globalShortsMap
         /\ commandShortsMap' = r.commandShortsMap
         /\ IF r.error.kind # "none"
              THEN pc' = "done" /\ outcome' = Outcome("threw", -1, r.error)
              ELSE pc' = "splitArgsByCommand" /\ outcome' = outcome
  /\ UNCHANGED <<session, terminal, callerConfig, inputs, config, systemHelpScopes, program, cliArgs, argIndex,
                 optionsToPrompt, promptIndex, inFlight, stdout, setLog, promptLog>>

\* parseConfig line 174
SplitArgsByCommand ==
  /\ pc = "splitArgsByCommand"
  /\ LET r == splitArgsByCommand(config, program, args)
     IN  cliArgs' = r.cliArgs /\ program' = r.program
  /\ pc' = "parseProgramArgs"
  /\ argIndex' = 1
  /\ UNCHANGED <<session, terminal, callerConfig, inputs, config, globalShortsMap, commandShortsMap,
                 systemHelpScopes, optionsToPrompt, promptIndex, inFlight, outcome, stdout,
                 setLog, promptLog>>

\* the catch block of parseConfig (lines 186-193) for a thrown Error e
Catch(e) ==
  /\ pc' = "done"
  /\ IF ~config.disableHelp
       THEN /\ stdout' = stdout \o <<ErrorLine(e), showHelp(config, <<>>)>>
            /\ outcome' = Outcome("exit", 1, e)
       ELSE /\ stdout' = stdout
            /\ outcome' = Outcome("threw", -1, e)

\* one iteration of the loop of #parseOptionsFromArgs over the segment seg
ParseStep(r) ==
  /\ program' = r.program
  /\ setLog' = setLog \o r.sets
  /\ IF r.error.kind # "none"
       THEN Catch(r.error) /\ argIndex' = argIndex
       ELSE /\ argIndex' = r.next
            /\ UNCHANGED <<pc, outcome, stdout>>

\* the loop of #parseOptionsFromArgs over the segment seg, at argIndex
ParseArg(seg, isProgramArgs) ==
  /\ argIndex <= Len(seg)
  /\ ParseStep(parseArg(Self, seg, argIndex, isProgramArgs))
  /\ UNCHANGED <<session, terminal, callerConfig, inputs, config, globalShortsMap, commandShortsMap,
                 systemHelpScopes, cliArgs, optionsToPrompt, promptIndex, inFlight, promptLog>>

\* parseConfig line 178
ParseProgramArg == pc = "parseProgramArgs" /\ ParseArg(cliArgs.programArgs, TRUE)

\* the loop over programArgs ends; line 179 starts
EndProgramArgs ==
  /\ pc = "parseProgramArgs"
  /\ argIndex > Len(cliArgs.programArgs)
  /\ pc' = "parseCommandArgs"
  /\ argIndex' = 1
  /\ UNCHANGED <<session, terminal, callerConfig, inputs, config, globalShortsMap, commandShortsMap,
                 systemHelpScopes, program, cliArgs, optionsToPrompt, promptIndex, inFlight,
                 outcome, stdout, setLog, promptLog>>

\* parseConfig line 179
ParseCommandArg == pc = "parseCommandArgs" /\ ParseArg(cliArgs.commandArgs, FALSE)

\* the loop over commandArgs ends
EndCommandArgs ==
  /\ pc = "parseCommandArgs"
  /\ argIndex > Len(cliArgs.commandArgs)
  /\ pc' = "checkForHelp"
  /\ UNCHANGED <<session, terminal, callerConfig, inputs, config, globalShortsMap, commandShortsMap,
                 systemHelpScopes, program, cliArgs, argIndex, optionsToPrompt, promptIndex,
                 inFlight, outcome, stdout, setLog, promptLog>>

\* parseConfig line 182
CheckForHelp ==
  /\ pc = "checkForHelp"
  /\ LET shown == checkForHelp(Self)
     IN  IF shown = "none"
           THEN pc' = "finalizeOptions" /\ UNCHANGED <<outcome, stdout>>
           ELSE /\ pc' = "done"
                /\ stdout' = Append(stdout,
                     showHelp(config, IF shown = "command" THEN program.command ELSE <<>>))
                /\ outcome' = Outcome("exit", 0, NoError)
  /\ UNCHANGED <<session, terminal, callerConfig, inputs, config, globalShortsMap, commandShortsMap,
                 systemHelpScopes, program, cliArgs, argIndex, optionsToPrompt, promptIndex,
                 inFlight, setLog, promptLog>>


\* #finalizeOptions, lines 650-703
ApplyDefaults ==
  /\ pc = "finalizeOptions"
  /\ LET r == applyDefaults(Self, env, "global", 1, [global |-> <<>>, command |-> <<>>], <<>>)
     IN  /\ program' = r.program
         /\ optionsToPrompt' = r.optionsToPrompt
         /\ setLog' = setLog \o r.sets
         /\ IF r.error.kind # "none"
              THEN Catch(r.error)
              ELSE pc' = "validateOptions" /\ UNCHANGED <<outcome, stdout>>
  /\ UNCHANGED <<session, terminal, callerConfig, inputs, config, globalShortsMap, commandShortsMap,
                 systemHelpScopes, cliArgs, argIndex, promptIndex, inFlight, promptLog>>

\* #finalizeOptions, lines 705-717
ValidateOptions ==
  /\ pc = "validateOptions"
  /\ LET e == validateOptions(Self, "global", 1)
     IN  IF e.kind # "none"
           THEN Catch(e)
           ELSE pc' = "promptForOptions" /\ UNCHANGED <<outcome, stdout>>
  /\ UNCHANGED <<session, terminal, callerConfig, inputs, config, globalShortsMap, commandShortsMap,
                 systemHelpScopes, program, cliArgs, argIndex, optionsToPrompt, promptIndex,
                 inFlight, setLog, promptLog>>

\* the queued options in iteration order: global scope, then command scope
Queued(queue) ==
  [j \in 1..Len(queue.global) |-> [name |-> queue.global[j], scope |-> "global"]]
  \o [j \in 1..Len(queue.command) |-> [name |-> queue.command[j], scope |-> "command"]]

\* lines 720-735: the next queued option is handed to promptAsync
PromptOption ==
  /\ pc = "promptForOptions"
  /\ ~config.disablePrompts
  /\ promptIndex < Len(Queued(optionsToPrompt))
  /\ LET item == Queued(optionsToPrompt)[promptIndex + 1]
         r    == getOption(Self, item.name, <<>>, item.scope = "global")
         call == [name |-> r.optionName, option |-> r.option, scope |-> r.scope,
                  queuedName |-> item.name, queuedScope |-> item.scope,
                  program |-> program]
     IN  IF r.option.type = "undefined" \/ r.optionName = <<>>
           THEN /\ promptIndex' = promptIndex + 1
                /\ UNCHANGED <<pc, inFlight, promptLog>>
           ELSE /\ inFlight' = call
                /\ promptLog' = Append(promptLog, call)
                /\ pc' = "awaitPrompt"
                /\ promptIndex' = promptIndex
  /\ UNCHANGED <<session, terminal, callerConfig, inputs, config, globalShortsMap, commandShortsMap,
                 systemHelpScopes, program, cliArgs, argIndex, optionsToPrompt, outcome,
                 stdout, setLog>>

\* lines 730-739: promptAsync resolves with a value
PromptAnswer ==
  /\ pc = "awaitPrompt"
  /\ \E optionValue \in PromptAnswers :
       LET e == validateOption(inFlight.option, inFlight.name, optionValue)
       IN  IF e.kind # "none"
             THEN Catch(e) /\ UNCHANGED <<program, setLog, promptIndex>>
             ELSE /\ program' = setProgramOption(program, inFlight.queuedName, optionValue,
                                                 inFlight.queuedScope)
                  /\ setLog' = Append(setLog, SetCall(inFlight.queuedName, optionValue,
                                                      inFlight.queuedScope, "prompt"))
                  /\ promptIndex' = promptIndex + 1
                  /\ pc' = "promptForOptions"
                  /\ UNCHANGED <<outcome, stdout>>
  /\ inFlight' = NoCall
  /\ UNCHANGED <<session, terminal, callerConfig, inputs, config, globalShortsMap, commandShortsMap,
                 systemHelpScopes, cliArgs, argIndex, optionsToPrompt, promptLog>>

\* line 730: promptAsync rejects (the default prompt does on a timeout)
PromptRejects ==
  /\ pc = "awaitPrompt"
  /\ Catch(Error("prompt-rejected", inFlight.name))
  /\ inFlight' = NoCall
  /\ UNCHANGED <<session, terminal, callerConfig, inputs, config, globalShortsMap, commandShortsMap,
                 systemHelpScopes, program, cliArgs, argIndex, optionsToPrompt, promptIndex,
                 setLog, promptLog>>

MissingRequiredOptions(names, command) ==
  [Error("missing-required-options", <<>>) EXCEPT !.names = names, !.command = command]

\* lines 742-754 and parseConfig line 195: the end of #finalizeOptions
Return ==
  /\ pc = "promptForOptions"
  /\ config.disablePrompts \/ promptIndex >= Len(Queued(optionsToPrompt))
  /\ IF config.disablePrompts /\ optionsToPrompt.global # <<>>
       THEN Catch(MissingRequiredOptions(optionsToPrompt.global, <<>>))
     ELSE IF config.disablePrompts /\ optionsToPrompt.command # <<>>
       THEN Catch(MissingRequiredOptions(optionsToPrompt.command, program.command))
     ELSE /\ pc' = "done"
          /\ outcome' = Outcome("returned", -1, NoError)
          /\ stdout' = stdout
  /\ UNCHANGED <<session, terminal, callerConfig, inputs, config, globalShortsMap, commandShortsMap,
                 systemHelpScopes, program, cliArgs, argIndex, optionsToPrompt, promptIndex,
                 inFlight, setLog, promptLog>>

Next ==
  \/ Constructor
  \/ ValidateConfig
  \/ SplitArgsByCommand
  \/ ParseProgramArg
  \/ EndProgramArgs
  \/ ParseCommandArg
  \/ EndCommandArgs
  \/ CheckForHelp
  \/ ApplyDefaults
  \/ ValidateOptions
  \/ PromptOption
  \/ PromptAnswer
  \/ PromptRejects
  \/ Return

Spec == Init /\ [][Next]_vars

(***************************************************************************)
(* Two successive invocations: the caller builds a second parser from the  *)
(* same config object, argument list and environment (constructor, lines   *)
(* 107-136, then parseConfig), with process.exit replaced so that the      *)
(* first one returns control to the caller                                 *)
(***************************************************************************)
Reinvoke ==
  /\ pc = "done"
  /\ invocation = 1
  /\ invocation' = 2
  /\ firstRun' = Ended(outcome, stdout, program, promptLog)
  /\ config' = callerConfig
  /\ globalShortsMap' = <<>>
  /\ commandShortsMap' = <<>>
  /\ systemHelpScopes' = {}
  /\ program' = NewProgram
  /\ cliArgs' = [programArgs |-> <<>>, commandArgs |-> <<>>]
  /\ pc' = "new"
  /\ argIndex' = 1
  /\ optionsToPrompt' = [global |-> <<>>, command |-> <<>>]
  /\ promptIndex' = 0
  /\ inFlight' = NoCall
  /\ outcome' = Running
  /\ stdout' = <<>>
  /\ setLog' = <<>>
  /\ promptLog' = <<>>
  /\ UNCHANGED <<terminal, callerConfig, inputs>>

TwiceNext ==
  \/ Next
  \/ Reinvoke

TwiceSpec == Init /\ [][TwiceNext]_vars

(***************************************************************************)
(* #defaultPromptAsync (lines 33-105), the prompt used when the            *)
(* configuration has no promptAsync                                        *)
(***************************************************************************)
MaxAttempts == 3

\* the options the default prompt is asked for
PromptOptions ==
  {ClideOption(debug, "boolean"),
   ClideOption(level, "number"),
   [ClideOption(port, "number") EXCEPT !.validate = "gt2"],
   [ClideOption(mode, "string") EXCEPT
      !.hasChoices = TRUE, !.choices = <<Str(<<"a">>), Str(<<"b">>)>>],
   [ClideOption(token, "string") EXCEPT !.validate = "nonempty"]}

\* the lines a user may type
Lines == {<<>>, <<"y", "e", "s">>, <<"n", "o">>, <<"N", "o">>, <<"5">>, <<"1">>, <<"a">>,
          <<"x">>}

\* a finally block that leaves the interface open
rlLeak(open) == open

\* lines 59-61: finally { rl.close() }
rlClose(open) == open - 1

\* lines 63-81: the line converted to the option's type, Undefined when the
\* prompt asks again
coerceAnswer(option, line, truthyVals, falsyVals) ==
  IF option.type = "boolean"
    THEN IF includes(truthyVals, line) THEN Bool(TRUE)
         ELSE IF includes(falsyVals, line) THEN Bool(FALSE)
         ELSE Undefined
  ELSE IF option.type = "number"
    THEN IF Number(line).nan THEN Undefined ELSE Num(Number(line).n)
  ELSE Str(line)

\* lines 63-101: the console.error message of a rejected line, "" when the
\* value is returned
rejectAnswer(option, v) ==
  IF v.t = "undefined"
    THEN IF option.type = "boolean" THEN "Please enter a valid boolean value."
         ELSE "Please enter a valid number value."
  ELSE IF option.hasChoices /\ ~includes(option.choices, v)
    THEN "Please enter a valid value from the choices provided."
  ELSE IF option.validate # "" /\ validateFn(option.validate, v).t = "string"
    THEN "validate"
  ELSE IF option.validate # "" /\ ~validateFn(option.validate, v).b
    THEN "Validation failed. Please enter a valid value."
  ELSE ""

\* the parser waits at line 729 for the default prompt of one option
PromptInit ==
  /\ promptOption \in PromptOptions
  /\ callerConfig = [ClideConfig EXCEPT !.disableHelp = TRUE, !.options = <<promptOption>>]
  /\ config = callerConfig
  /\ args = <<>>
  /\ env = <<>>
  /\ truthyValues = DefaultTruthy
  /\ falsyValues = DefaultFalsy
  /\ globalShortsMap = <<>>
  /\ commandShortsMap = <<>>
  /\ systemHelpScopes = {}
  /\ program = NewProgram
  /\ cliArgs = [programArgs |-> <<>>, commandArgs |-> <<>>]
  /\ pc = "awaitPrompt"
  /\ argIndex = 1
  /\ optionsToPrompt = [global |-> <<promptOption.name>>, command |-> <<>>]
  /\ promptIndex = 0
  /\ inFlight = [name |-> promptOption.name, option |-> promptOption, scope |-> "global",
                 queuedName |-> promptOption.name, queuedScope |-> "global",
                 program |-> NewProgram]
  /\ outcome = Running
  /\ stdout = <<>>
  /\ setLog = <<>>
  /\ promptLog = <<inFlight>>
  /\ promptPc = "loop"
  /\ attempt = 0
  /\ rlOpen = 0
  /\ promptValue = Undefined
  /\ promptError = NoError
  /\ consoleErrors = <<>>
  /\ invocation = 1
  /\ firstRun = NoInvocation

\* the variables of the parser, which the default prompt does not write
parser == <<session, callerConfig, inputs, config, globalShortsMap, commandShortsMap, systemHelpScopes,
            program, cliArgs, pc, argIndex, optionsToPrompt, promptIndex, inFlight, outcome,
            stdout, setLog, promptLog>>

\* lines 41-55: one more iteration: createInterface and rl.question
CreateInterface ==
  /\ promptPc = "loop"
  /\ attempt < MaxAttempts
  /\ attempt' = attempt + 1
  /\ rlOpen' = rlOpen + 1
  /\ promptPc' = "question"
  /\ UNCHANGED <<parser, promptOption, promptValue, promptError, consoleErrors>>

\* lines 55, 59-104: the user typed a line; it is returned or asked again
QuestionResolves ==
  /\ promptPc = "question"
  /\ \E line \in Lines :
       LET v == coerceAnswer(promptOption, line, truthyValues, falsyValues)
           m == rejectAnswer(promptOption, v)
       IN  IF m = ""
             THEN promptPc' = "returned" /\ promptValue' = v /\ consoleErrors' = consoleErrors
             ELSE /\ promptPc' = "loop" /\ promptValue' = promptValue
                  /\ consoleErrors' = Append(consoleErrors, m)
  /\ rlOpen' = rlClose(rlOpen)
  /\ UNCHANGED <<parser, promptOption, attempt, promptError>>

\* lines 56-58, 59-61: the signal aborts the question after 120 s
QuestionTimesOut ==
  /\ promptPc = "question"
  /\ rlOpen' = rlClose(rlOpen)
  /\ promptPc' = "threw"
  /\ promptError' = Error("prompt-timed-out", promptOption.name)
  /\ UNCHANGED <<parser, promptOption, attempt, promptValue, consoleErrors>>

\* lines 59-61: the question rejects with another error, which is rethrown
QuestionFails ==
  /\ promptPc = "question"
  /\ rlOpen' = rlClose(rlOpen)
  /\ promptPc' = "threw"
  /\ promptError' = Error("read-error", promptOption.name)
  /\ UNCHANGED <<parser, promptOption, attempt, promptValue, consoleErrors>>

PromptNext ==
  \/ CreateInterface
  \/ QuestionResolves
  \/ QuestionTimesOut
  \/ QuestionFails

PromptSpec == PromptInit /\ [][PromptNext]_vars

\* the returned ClideProgram
Returned == pc = "done" /\ outcome.kind = "returned"

TypeOK ==
  /\ pc \in {"new", "validateConfig", "splitArgsByCommand", "parseProgramArgs",
             "parseCommandArgs", "checkForHelp", "finalizeOptions", "validateOptions",
             "promptForOptions", "awaitPrompt", "done"}
  /\ outcome.kind \in {"running", "returned", "threw", "exit"}
  /\ (pc = "done") = (outcome.kind # "running")


(***************************************************************************)
(* Vocabulary of the properties                                            *)
(***************************************************************************)
Range(seq) == {seq[j] : j \in 1..Len(seq)}
Failed(o) == o.kind \in {"threw", "exit"} /\ o.error.kind # "none"

\* the declared options of a scope of the running parse, as pairs
ScopeOptions(scope) ==
  IF scope = "global" THEN Range(config.options)
  ELSE Range(CommandOptions(config, program.command))
SubMap(prog, scope) == IF scope = "global" THEN prog.globalOptions ELSE prog.commandOptions
Scopes == {"global", "command"}

\* is the call c the effect of a flag of option o (--name, -s, or --no-name)
FlagFor(o, c) ==
  /\ c.via \in {"flag", "stack"}
  /\ c.name = o.name \/ (o.type = "boolean" /\ o.negatable /\ c.name = no(o.name))
FlagValue(o, c) == IF c.name = o.name THEN c.value ELSE Bool(~c.value.b)
FlagCalls(o, scope) ==
  {j \in 1..Len(setLog) : setLog[j].scope = scope /\ FlagFor(o, setLog[j])}
LastFlagValue(o, scope) ==
  FlagValue(o, setLog[CHOOSE j \in FlagCalls(o, scope) : \A k \in FlagCalls(o, scope) : k <= j])

\* the text of the option's env variable, Undefined when unset or unbound
EnvText(o) == IF o.env = "" THEN Undefined ELSE Get(env, o.env)
\* the env text coerced to the option's type; Undefined when it cannot be
Coerced(o, text) ==
  CASE o.type = "string" -> Str(text)
    [] o.type = "number" ->
         IF Number(text).nan THEN Undefined ELSE Num(Number(text).n)
    [] o.type = "boolean" ->
         IF text = <<>> \/ includes(truthyValues, toLowerCase(text)) THEN Bool(TRUE)
         ELSE IF includes(falsyValues, toLowerCase(text)) THEN Bool(FALSE)
         ELSE Undefined

\* C1: for an option with both an env binding and a default, a returned
\* result holds the flag's value when a flag was supplied, else the coerced
\* env value when the env variable is set, else the default.
C1_Precedence ==
  Returned =>
    \A scope \in Scopes : \A o \in ScopeOptions(scope) :
      (o.env # "" /\ o.default.t # "undefined") =>
        LET resolved == Get(SubMap(program, scope), o.name)
        IN  IF FlagCalls(o, scope) # {} THEN resolved = LastFlagValue(o, scope)
            ELSE IF EnvText(o).t = "undefined" THEN resolved = o.default
            ELSE Coerced(o, EnvText(o).s).t # "undefined"
                   => resolved = Coerced(o, EnvText(o).s)

\* has option o of the scope a value from a flag, env or default
ValueBeforePrompt(o, scope) ==
  \E j \in 1..Len(setLog) :
    /\ setLog[j].scope = scope
    /\ FlagFor(o, setLog[j]) \/ (setLog[j].via = "default" /\ setLog[j].name = o.name)

\* C2: with prompts enabled every required option without a value from flag,
\* env or default is passed to the prompt collaborator, and every returned
\* result holds a value in options under the name of every required option.
C2_RequiredPrompted ==
  (Returned /\ ~config.disablePrompts) =>
    \A scope \in Scopes : \A o \in ScopeOptions(scope) :
      o.required =>
        /\ Get(program.options, o.name).t # "undefined"
        /\ ~ValueBeforePrompt(o, scope) =>
             \E j \in 1..Len(promptLog) :
               /\ promptLog[j].queuedName = o.name
               /\ promptLog[j].queuedScope = scope
               /\ promptLog[j].option = o

\* the required options of a scope that reach finalization without a value
\* from a flag and get none from env or default
MissingRequired(scope) ==
  {o \in ScopeOptions(scope) :
     /\ o.required
     /\ ~Has(SubMap(program, scope), o.name)
     /\ envOrDefault(Self, env, o).t = "undefined"}

\* C3: with disablePrompts, a required option without a value from flag, env
\* or default makes finalization fail with a missing-required-option error
\* naming the option (and the command); the prompt is never invoked.
C3_MissingRequiredFails ==
  [][(pc = "finalizeOptions" /\ config.disablePrompts
      /\ \E scope \in Scopes : MissingRequired(scope) # {})
     => /\ Failed(outcome')
        /\ outcome'.error.kind = "missing-required-option"
        /\ \E scope \in Scopes : \E o \in MissingRequired(scope) :
             /\ outcome'.error.subject = o.name
             /\ outcome'.error.command = IF scope = "global" THEN <<>> ELSE program.command
        /\ promptLog' = <<>>]_vars

\* C4: with prompting disabled and several required options of one scope
\* missing, the one error raised lists all the missing names of that scope.
C4_AllMissingListed ==
  [][(pc = "finalizeOptions" /\ config.disablePrompts)
     => \A scope \in Scopes :
          (/\ Cardinality(MissingRequired(scope)) >= 2
           /\ scope = "command" => MissingRequired("global") = {})
          => /\ Failed(outcome')
             /\ {o.name : o \in MissingRequired(scope)}
                  \subseteq ({outcome'.error.subject} \cup Range(outcome'.error.names))]_vars


(***************************************************************************)
(* Vocabulary of the properties of one parse step                          *)
(***************************************************************************)
Parsing == pc \in {"parseProgramArgs", "parseCommandArgs"}
InProgramArgs == pc = "parseProgramArgs"
Segment == IF InProgramArgs THEN cliArgs.programArgs ELSE cliArgs.commandArgs
AtToken == Parsing /\ argIndex <= Len(Segment)
Token == Segment[argIndex]
NewCalls == SubSeq(setLog', Len(setLog) + 1, Len(setLog'))
LastCall == setLog'[Len(setLog')]
FailsWith(kind) == Failed(outcome') /\ outcome'.error.kind = kind

\* the shape of a flag token: --name[=text] or -letters[=text]
IsLong(t) == startsWith(t, <<"-", "-">>)
IsShort(t) == startsWith(t, <<"-">>) /\ ~IsLong(t)
FlagBody(t) == IF IsLong(t) THEN sliceFrom(t, 2) ELSE sliceFrom(t, 1)
HasInline(t) == indexOf(FlagBody(t), "=") # -1
FlagName(t) ==
  IF HasInline(t) THEN SubSeq(FlagBody(t), 1, indexOf(FlagBody(t), "=")) ELSE FlagBody(t)
InlineText(t) == SubSeq(FlagBody(t), indexOf(FlagBody(t), "=") + 2, Len(FlagBody(t)))
IsSimpleFlag(t) == IsLong(t) \/ (IsShort(t) /\ Len(FlagName(t)) = 1)
IsStacked(t) == IsShort(t) /\ Len(FlagName(t)) >= 2

\* is the simple flag token t a flag of an option of the table opts
FlagOf(opts, t) ==
  IF IsLong(t)
    THEN LET n == toLowerCase(FlagName(t))
         IN  \/ HasOption(opts, n)
             \/ /\ startsWith(n, no(<<>>))
                /\ HasOption(opts, sliceFrom(n, 3))
                /\ OptionAt(opts, sliceFrom(n, 3)).type = "boolean"
                /\ OptionAt(opts, sliceFrom(n, 3)).negatable
    ELSE \E j \in 1..Len(opts) : opts[j].short = FlagName(t)

ExplicitCommand == program.command # <<>> /\ ~program.isDefaultCommand
GlobalOpts == config.options
ActiveOpts == CommandOptions(config, program.command)
Table(scope) == IF scope = "global" THEN GlobalOpts ELSE ActiveOpts

\* the scopes in which a flag of the current segment is looked up, in order
SegmentScopes ==
  IF InProgramArgs THEN <<"global">>
  ELSE IF program.isDefaultCommand THEN <<"global", "command">>
  ELSE <<"command">>

Undeclared == [scope |-> "undefined", option |-> NoOption, negates |-> FALSE]
FirstScope(hits) == SegmentScopes[CHOOSE k \in hits : \A m \in hits : k <= m]

\* the option a long name denotes in the current segment
ByName(n) ==
  LET hits == {k \in 1..Len(SegmentScopes) : HasOption(Table(SegmentScopes[k]), n)}
  IN  IF hits = {} THEN Undeclared
      ELSE [scope |-> FirstScope(hits), option |-> OptionAt(Table(FirstScope(hits)), n),
            negates |-> FALSE]

\* the option a short alias denotes in the current segment
ByShort(c) ==
  LET at(k) == {j \in 1..Len(Table(SegmentScopes[k])) : Table(SegmentScopes[k])[j].short = c}
      hits  == {k \in 1..Len(SegmentScopes) : at(k) # {}}
  IN  IF hits = {} \/ c = <<>> THEN Undeclared
      ELSE [scope |-> FirstScope(hits),
            option |-> Table(FirstScope(hits))[CHOOSE j \in 1..Len(Table(FirstScope(hits))) :
                                                 Table(FirstScope(hits))[j].short = c],
            negates |-> FALSE]

\* the option the flag --n denotes: the option named n, else for n = no-<base>
\* the negatable boolean option named <base>
ByLongFlag(n) ==
  IF ByName(n).scope # "undefined" THEN ByName(n)
  ELSE IF /\ startsWith(n, no(<<>>))
          /\ ByName(sliceFrom(n, 3)).option.type = "boolean"
          /\ ByName(sliceFrom(n, 3)).option.negatable
    THEN [ByName(sliceFrom(n, 3)) EXCEPT !.negates = TRUE]
  ELSE Undeclared

\* the option the last (or only) flag of token t denotes
LastFlag(t) ==
  IF IsLong(t) THEN ByLongFlag(toLowerCase(FlagName(t)))
  ELSE IF FlagName(t) = <<>> THEN Undeclared
  ELSE ByShort(<<FlagName(t)[Len(FlagName(t))]>>)

\* are all the letters of a short token before the last one boolean aliases
PrefixLetters(t) == SubSeq(FlagName(t), 1, Len(FlagName(t)) - 1)
PrefixBoolean(t) ==
  IsShort(t) => \A j \in 1..Len(PrefixLetters(t)) :
                  ByShort(<<PrefixLetters(t)[j]>>).option.type = "boolean"

\* the text following the current token, lowercased ("" when there is none)
NextText == IF argIndex < Len(Segment) THEN toLowerCase(Segment[argIndex + 1]) ELSE <<>>
BooleanText(text) == includes(truthyValues \o falsyValues, text)


\* is the call c a store for an option declared in the table opts
CallDeclaredIn(opts, c) ==
  \/ HasOption(opts, c.name)
  \/ /\ startsWith(c.name, no(<<>>))
     /\ HasOption(opts, sliceFrom(c.name, 3))
     /\ OptionAt(opts, sliceFrom(c.name, 3)).negatable

\* C5: when a command token is present, a flag after the command token that
\* is not a flag of that command's options (a global option's flag, another
\* command's flag) fails with an unknown-option error, and so does a flag
\* before the command token that is not a flag of a global option; every
\* value stored while parsing a segment belongs to an option declared in
\* that segment's own scope.
C5_StrictOrdering ==
  [][(AtToken /\ ExplicitCommand) =>
       LET own == IF InProgramArgs THEN "global" ELSE "command"
       IN  /\ (IsSimpleFlag(Token) /\ ~FlagOf(Table(own), Token))
                => /\ FailsWith("unknown-option")
                   /\ outcome'.error.subject = Token
                   /\ NewCalls = <<>>
           /\ \A k \in 1..Len(NewCalls) :
                /\ NewCalls[k].scope = own
                /\ CallDeclaredIn(Table(own), NewCalls[k])
           /\ program'.globalOptions # program.globalOptions => InProgramArgs
           /\ program'.commandOptions # program.commandOptions => ~InProgramArgs]_vars

\* a global option's flag placed after the command token was rejected
C5_Witness ==
  /\ pc = "done" /\ ExplicitCommand
  /\ Failed(outcome) /\ outcome.error.kind = "unknown-option"
  /\ argIndex <= Len(cliArgs.commandArgs)
  /\ cliArgs.programArgs = <<>>
  /\ outcome.error.subject = cliArgs.commandArgs[argIndex]
  /\ FlagOf(GlobalOpts, outcome.error.subject)
  /\ ~FlagOf(ActiveOpts, outcome.error.subject)


\* the indexes of the argument list at which a command name stands
CommandTokens == {k \in 1..Len(args) : HasCommand(config, toLowerCase(args[k]))}
\* has #splitArgsByCommand run (it runs once the configuration is accepted)
SplitDone ==
  \/ pc \in {"parseProgramArgs", "parseCommandArgs", "checkForHelp", "finalizeOptions",
             "validateOptions", "promptForOptions", "awaitPrompt"}
  \/ pc = "done" /\ validateConfig(config).error.kind = "none"

\* the value a flag call stores for the option it denotes
Denotes(d, c) == IF d.negates THEN Bool(~c.value.b) ELSE c.value

C8_StackedShortFlags ==
  [][(AtToken /\ IsStacked(Token)) =>
       LET letters == FlagName(Token)
           n       == Len(letters)
           d(j)    == ByShort(<<letters[j]>>)
           bad     == {j \in 1..(n - 1) : d(j).option.type # "boolean"}
           first   == IF bad = {} THEN n ELSE CHOOSE j \in bad : \A m \in bad : j <= m
           single  == [Segment EXCEPT ![argIndex] = <<"-">> \o SubSeq(Token, n + 1, Len(Token))]
           alone   == parseArg(Self, single, argIndex, InProgramArgs)
       IN  /\ Len(NewCalls) >= first - 1
           /\ \A j \in 1..(first - 1) :
                NewCalls[j] = SetCall(d(j).option.name, Bool(TRUE), d(j).scope, "stack")
           /\ IF bad # {}
                THEN /\ FailsWith("invalid-option")
                     /\ outcome'.error.subject = Token
                     /\ Len(NewCalls) = first - 1
                ELSE /\ SubSeq(NewCalls, n, Len(NewCalls)) = alone.sets
                     /\ outcome'.error.kind = alone.error.kind
                     /\ alone.error.kind = "none" => argIndex' = alone.next
                     /\ \A j \in 1..(n - 1) :
                          (\A c \in Range(alone.sets) : c.name # d(j).option.name)
                            => Get(SubMap(program', d(j).scope), d(j).option.name) = Bool(TRUE)]_vars

\* -xyz value with booleans x, y and string z returned all three values
C8_Witness ==
  /\ Returned
  /\ Len(args) = 2 /\ IsStacked(args[1]) /\ Len(FlagName(args[1])) = 3 /\ ~HasInline(args[1])
  /\ Len(setLog) >= 3
  /\ setLog[1].via = "stack" /\ setLog[2].via = "stack" /\ setLog[3].via = "flag"
  /\ Get(program.options, setLog[1].name) = Bool(TRUE)
  /\ Get(program.options, setLog[2].name) = Bool(TRUE)
  /\ Get(program.options, setLog[3].name) = Str(args[2])


\* one parse step of a long flag --n[=text], for the part of C9 on negatable
\* options: --flag yields true, --no-flag false, --no-flag=<falsy> true, and
\* nothing is stored under no-flag
NegatableStep(n) ==
  LET base == sliceFrom(n, 3)
      d    == ByLongFlag(n)
      inl  == toLowerCase(InlineText(Token))
      at(name, v) == /\ ~Failed(outcome')
                     /\ Get(SubMap(program', d.scope), name) = Bool(v)
                     /\ Get(program'.options, name) = Bool(v)
  IN  /\ (~d.negates /\ d.option.type = "boolean" /\ d.option.negatable
          /\ ~HasInline(Token) /\ ~BooleanText(NextText))
           => at(n, TRUE)
      /\ d.negates
           => /\ (~HasInline(Token) /\ ~BooleanText(NextText)) => at(base, FALSE)
              /\ (HasInline(Token) /\ includes(falsyValues, inl)) => at(base, TRUE)
              /\ (HasInline(Token) /\ includes(truthyValues, inl)) => at(base, FALSE)
              /\ ~Failed(outcome')
                   => /\ ~Has(program'.options, n)
                      /\ ~Has(SubMap(program', d.scope), n)

\* is n = no-<base> where <base> is declared in the segment's scope as a
\* boolean option that is not negatable or as a non-boolean option
NegatesNonNegatable(n) ==
  /\ startsWith(n, no(<<>>))
  /\ ByName(sliceFrom(n, 3)).scope # "undefined"
  /\ ~(ByName(sliceFrom(n, 3)).option.type = "boolean"
       /\ ByName(sliceFrom(n, 3)).option.negatable)

\* C9 as stated: for a negatable boolean option flag, --flag yields true,
\* --no-flag false, --no-flag=false true, stored under flag and never under
\* no-flag; for a non-negatable boolean or a non-boolean option,
\* --no-<name> fails with an unknown-option error.
C9_Negation ==
  [][(AtToken /\ IsLong(Token)) =>
       LET n == toLowerCase(FlagName(Token))
       IN  /\ NegatableStep(n)
           /\ NegatesNonNegatable(n) => FailsWith("unknown-option")]_vars

\* C9 amended: as C9, but --no-<name> for a non-negatable or non-boolean
\* option <name> fails with an unknown-option error only when the scope
\* declares no option named no-<name>; when it declares one, the token is a
\* flag of that option.
C9_NegationUnlessDeclared ==
  [][(AtToken /\ IsLong(Token)) =>
       LET n == toLowerCase(FlagName(Token))
       IN  /\ NegatableStep(n)
           /\ NegatesNonNegatable(n) =>
                IF ByName(n).scope = "undefined"
                  THEN FailsWith("unknown-option") /\ NewCalls = <<>>
                  ELSE /\ outcome'.error.kind # "unknown-option"
                       /\ ~Failed(outcome')
                            => /\ Len(NewCalls) = 1
                               /\ LastCall.name = n
                               /\ LastCall.scope = ByName(n).scope]_vars

\* --no-<name> for a declared option that is not negatable, in a scope
\* without an option named no-<name>, was rejected
C9_Witness ==
  /\ pc = "done" /\ Failed(outcome) /\ outcome.error.kind = "unknown-option"
  /\ IsLong(outcome.error.subject)
  /\ LET n == toLowerCase(FlagName(outcome.error.subject))
     IN  /\ startsWith(n, no(<<>>))
         /\ HasOption(GlobalOpts, sliceFrom(n, 3))
         /\ ~OptionAt(GlobalOpts, sliceFrom(n, 3)).negatable
         /\ ~HasOption(GlobalOpts, n)
         /\ program.command = <<>>

\* C10: a boolean flag without =value consumes the following token exactly
\* when that token, lowercased, is in the truthy or falsy set; any other
\* following token (or none) is left for the next step and the flag's value
\* is true; an =value outside both sets fails with an
\* unknown-boolean-value error.
C10_BooleanLookahead ==
  [][(/\ AtToken /\ (IsLong(Token) \/ IsShort(Token))
      /\ PrefixBoolean(Token)
      /\ LastFlag(Token).option.type = "boolean") =>
       LET d   == LastFlag(Token)
           inl == toLowerCase(InlineText(Token))
           stored(v) ==
             /\ ~Failed(outcome')
             /\ LastCall = SetCall(LastCall.name, Bool(v), d.scope, "flag")
             /\ (~d.negates /\ ~startsWith(d.option.name, no(<<>>)))
                  => Get(SubMap(program', d.scope), d.option.name) = Bool(v)
             /\ program'.positionals = program.positionals
       IN  IF ~HasInline(Token)
             THEN IF BooleanText(NextText)
                    THEN stored(includes(truthyValues, NextText)) /\ argIndex' = argIndex + 2
                    ELSE stored(TRUE) /\ argIndex' = argIndex + 1
             ELSE IF BooleanText(inl)
                    THEN stored(includes(truthyValues, inl)) /\ argIndex' = argIndex + 1
                    ELSE /\ FailsWith("unknown-boolean-value")
                         /\ NewCalls = SubSeq(NewCalls, 1, Len(PrefixLetters(Token)))]_vars

\* a boolean flag left the token after it, which is in neither set, to be
\* parsed as a positional, and got the value true
C10_Witness ==
  /\ Returned
  /\ Len(args) = 2 /\ IsLong(args[1]) /\ ~HasInline(args[1])
  /\ ~includes(truthyValues \o falsyValues, toLowerCase(args[2]))
  /\ Len(setLog) >= 1 /\ setLog[1] = SetCall(FlagName(args[1]), Bool(TRUE), "global", "flag")
  /\ program.positionals = <<args[2]>>


\* is the text a decimal numeral
IsNumeral(text) == text # <<>> /\ \A k \in 1..Len(text) : text[k] \in Digits

\* C11: a string or number flag takes the text after the first = or, without
\* one, the next token of its segment, which it consumes; with neither the
\* parse fails with a missing-value error; a number option's text is parsed
\* numerically and text that is not a number, the empty text after =
\* included, fails with a not-a-number error; a string is stored as it is.
C11_ValueRequired ==
  [][(/\ AtToken /\ (IsLong(Token) \/ IsShort(Token))
      /\ PrefixBoolean(Token)
      /\ LastFlag(Token).option.type \in {"string", "number"}) =>
       LET d       == LastFlag(Token)
           hasNext == argIndex < Len(Segment)
           text    == IF HasInline(Token) THEN InlineText(Token)
                      ELSE IF hasNext THEN Segment[argIndex + 1] ELSE <<>>
           value   == IF d.option.type = "number" THEN Num(Number(text).n) ELSE Str(text)
       IN  IF ~HasInline(Token) /\ ~hasNext
             THEN FailsWith("missing-value")
           ELSE IF d.option.type = "number" /\ ~IsNumeral(text)
             THEN FailsWith("not-a-number")
           ELSE /\ ~Failed(outcome')
                /\ argIndex' = (IF HasInline(Token) THEN argIndex + 1 ELSE argIndex + 2)
                /\ LastCall = SetCall(d.option.name, value, d.scope, "flag")
                /\ Get(SubMap(program', d.scope), d.option.name) = value]_vars


\* does the flag token at argIndex take the next token as its value
ConsumesNext ==
  /\ ~HasInline(Token)
  /\ \/ LastFlag(Token).option.type \in {"string", "number"}
     \/ LastFlag(Token).option.type = "boolean" /\ BooleanText(NextText)

FirstTable(tables, n) ==
  IF \E k \in 1..Len(tables) : HasOption(tables[k], n)
    THEN CHOOSE k \in 1..Len(tables) :
           HasOption(tables[k], n) /\ \A m \in 1..(k - 1) : ~HasOption(tables[m], n)
    ELSE 0

\* the type of the option the long flag --n denotes in the tables, in order
LongTypeIn(tables, n) ==
  IF FirstTable(tables, n) # 0 THEN OptionAt(tables[FirstTable(tables, n)], n).type
  ELSE IF /\ startsWith(n, no(<<>>))
          /\ FirstTable(tables, sliceFrom(n, 3)) # 0
          /\ OptionAt(tables[FirstTable(tables, sliceFrom(n, 3))], sliceFrom(n, 3)).negatable
    THEN OptionAt(tables[FirstTable(tables, sliceFrom(n, 3))], sliceFrom(n, 3)).type
  ELSE "undefined"

\* the type of the option the short alias c denotes in the tables, in order
ShortTypeIn(tables, c) ==
  LET has(k) == \E j \in 1..Len(tables[k]) : tables[k][j].short = c
  IN  IF c = <<>> \/ ~\E k \in 1..Len(tables) : has(k) THEN "undefined"
      ELSE LET k == CHOOSE k \in 1..Len(tables) : has(k) /\ \A m \in 1..(k - 1) : ~has(m)
           IN  tables[k][CHOOSE j \in 1..Len(tables[k]) : tables[k][j].short = c].type

\* the type of the option the last flag of the token t denotes
FlagTypeIn(tables, t) ==
  IF IsLong(t) THEN LongTypeIn(tables, toLowerCase(FlagName(t)))
  ELSE IF FlagName(t) = <<>> THEN "undefined"
  ELSE ShortTypeIn(tables, <<FlagName(t)[Len(FlagName(t))]>>)

\* does the flag token seg[i] take seg[i + 1] as its value
TakesValue(tables, seg, i) ==
  /\ ~HasInline(seg[i])
  /\ i < Len(seg)
  /\ \/ FlagTypeIn(tables, seg[i]) \in {"string", "number"}
     \/ /\ FlagTypeIn(tables, seg[i]) = "boolean"
        /\ BooleanText(toLowerCase(seg[i + 1]))

\* the bare tokens of a segment, from index i on, that no flag takes as value
RECURSIVE BareTokens(_, _, _)
BareTokens(tables, seg, i) ==
  IF i > Len(seg) THEN <<>>
  ELSE IF startsWith(seg[i], <<"-">>)
    THEN BareTokens(tables, seg, IF TakesValue(tables, seg, i) THEN i + 2 ELSE i + 1)
  ELSE <<seg[i]>> \o BareTokens(tables, seg, i + 1)

\* the option tables the flags of the command segment are looked up in
CommandTables == IF program.isDefaultCommand THEN <<GlobalOpts, ActiveOpts>> ELSE <<ActiveOpts>>

TokensAfter ==
  IF InProgramArgs
    THEN SubSeq(cliArgs.programArgs, argIndex + 1, Len(cliArgs.programArgs))
           \o (IF ExplicitCommand THEN <<program.command>> ELSE <<>>)
           \o cliArgs.commandArgs
    ELSE SubSeq(cliArgs.commandArgs, argIndex + 1, Len(cliArgs.commandArgs))

\* C14: a -- token at the loop index ends option parsing: the step does not
\* fail, and every token of args after it is appended to positionals in its
\* original order, none of them read as an option or as the command.
C14_Terminator ==
  [][(AtToken /\ Token = <<"-", "-">>) =>
       /\ ~Failed(outcome')
       /\ program'.positionals = program.positionals \o TokensAfter
       /\ program'.options = program.options
       /\ NewCalls = <<>>]_vars


\* does the value v meet the declaration o: type, choices, validate
Accepted(o, v) ==
  /\ v.t = o.type
  /\ o.hasChoices => v \in Range(o.choices)
  /\ o.validate # "" => validateFn(o.validate, v) = Bool(TRUE)

\* the values of a scope map of prog that its scope's declarations reject
Rejected(prog, scope) ==
  {e \in Range(SubMap(prog, scope)) :
     /\ HasOption(Table(scope), e.k)
     /\ ~Accepted(OptionAt(Table(scope), e.k), e.v)}

\* C15: every value of a returned result meets the declaration of its
\* option in its scope (declared type, member of the declared choices,
\* accepted by the validate predicate), whatever its source; the validation
\* pass and the validation of a prompt answer store a passing value as it is.
C15_ValidatedValues ==
  [][/\ Returned' => \A scope \in Scopes : Rejected(program', scope) = {}
     /\ pc = "validateOptions" => program' = program
     /\ (pc = "awaitPrompt" /\ NewCalls # <<>>) =>
          /\ LastCall.via = "prompt"
          /\ Get(SubMap(program', LastCall.scope), LastCall.name) = LastCall.value]_vars


\* is the printed entry e the help text of the command (<<>>: root help)
IsHelp(e, commandName) ==
  [kind |-> e.kind, command |-> e.command, error |-> e.error] = HelpText(commandName)

\* was a help flag supplied and parsed as true in the scope
HelpFlagTrue(scope) == Get(SubMap(program, scope), help) = Bool(TRUE)

\* the step prints the help of the command (<<>> for root help), exits 0
ShowsHelp(commandName) ==
  /\ pc' = "done"
  /\ Len(stdout') = Len(stdout) + 1
  /\ SubSeq(stdout', 1, Len(stdout)) = stdout
  /\ IsHelp(stdout'[Len(stdout')], commandName)
  /\ outcome' = Outcome("exit", 0, NoError)

\* C16: after both segments are parsed with a help flag true, the help
\* check prints the command's help and exits 0 when a command token was
\* given, the command's own help flag is true and its help was injected;
\* otherwise it prints root help and exits 0 when the global help was
\* injected.  A help check that prints help exits 0, and no returned
\* result has printed help.
C16_HelpTrigger ==
  [][/\ (pc = "checkForHelp" /\ \E scope \in Scopes : HelpFlagTrue(scope)) =>
          IF /\ ExplicitCommand /\ HelpFlagTrue("command")
             /\ program.command \in systemHelpScopes
            THEN ShowsHelp(program.command)
          ELSE IF GlobalScope \in systemHelpScopes THEN ShowsHelp(<<>>)
          ELSE TRUE
     /\ (pc = "checkForHelp" /\ stdout' # stdout) =>
          /\ outcome'.kind = "exit" /\ outcome'.code = 0 /\ pc' = "done"
     /\ Returned' => \A j \in 1..Len(stdout') : stdout'[j].kind # "help"]_vars


\* the step prints the error line and the help text and exits with status 1
ExitsWithHelp ==
  /\ outcome'.kind = "exit" /\ outcome'.code = 1
  /\ Len(stdout') = Len(stdout) + 2
  /\ SubSeq(stdout', 1, Len(stdout) + 1) = Append(stdout, ErrorLine(outcome'.error))
  /\ IsHelp(stdout'[Len(stdout')], <<>>)

\* the step lets the error reach the caller: nothing printed, no exit
Propagates == outcome'.kind = "threw" /\ stdout' = stdout

\* C17: an error raised while parsing the segments, resolving env and
\* defaults, validating values or prompting is handled as throwOnError
\* says: not set, one error line and the help text are printed and the
\* process exits with status 1; set, the error reaches the caller and the
\* process does not exit.
C17_ThrowOnError ==
  [][(pc \notin {"new", "validateConfig", "splitArgsByCommand", "done"} /\ Failed(outcome')) =>
       IF config.throwOnError THEN Propagates ELSE ExitsWithHelp]_vars


\* the option tables of a configuration: the global one, then each command's
OptionTables(cfg) ==
  <<cfg.options>> \o [j \in 1..Len(cfg.commands) |-> cfg.commands[j].options]

\* a name that is lowercase and matches ^[a-z][a-z0-9-_]*$
ValidName(name) ==
  /\ name # <<>>
  /\ name[1] \in LowerLetters
  /\ \A k \in 1..Len(name) : name[k] \in LowerLetters \cup Digits \cup {"-", "_"}

\* the five reasons to reject a configuration
BadDefaultCommand(cfg) == cfg.defaultCommand # <<>> /\ ~HasCommand(cfg, cfg.defaultCommand)
BadName(cfg) ==
  \/ \E j \in 1..Len(cfg.commands) : ~ValidName(cfg.commands[j].name)
  \/ \E t \in Range(OptionTables(cfg)) : \E o \in Range(t) : ~ValidName(o.name)
BadShort(cfg) ==
  \E t \in Range(OptionTables(cfg)) : \E o \in Range(t) :
    o.short # <<>> /\ ~(Len(o.short) = 1 /\ o.short[1] \in LowerLetters \cup UpperLetters)
SharedShort(cfg) ==
  \E t \in Range(OptionTables(cfg)) : \E j, k \in 1..Len(t) :
    j # k /\ t[j].short # <<>> /\ t[j].short = t[k].short
NegatableConflict(cfg) ==
  \E t \in Range(OptionTables(cfg)) : \E o \in Range(t) :
    o.type = "boolean" /\ o.negatable /\ HasOption(t, no(o.name))
Invalid(cfg) ==
  \/ BadDefaultCommand(cfg) \/ BadName(cfg) \/ BadShort(cfg)
  \/ SharedShort(cfg) \/ NegatableConflict(cfg)

ConfigErrorKinds ==
  {"default-command-not-found", "name-not-lowercase", "name-invalid", "short-invalid",
   "short-duplicate", "negatable-conflict"}

\* the scope a flag of the current segment addresses, when the command token
\* of an explicit command separates the two segments
SegmentScope == IF InProgramArgs THEN "global" ELSE "command"

C18_SharedShortResolved ==
  /\ Returned /\ ExplicitCommand
  /\ \E g \in Range(GlobalOpts) : \E c \in Range(ActiveOpts) :
       /\ g.short # <<>> /\ g.short = c.short /\ g.name # c.name
       /\ Get(program.globalOptions, g.name) = Bool(TRUE)
       /\ Get(program.commandOptions, c.name) = Bool(TRUE)

UserShortH(opts) == {o \in Range(opts) : o.short = <<"h">> /\ o.name # help}

\* the scopes, by the name #systemHelpScopes gives them, with their tables
HelpScopes ==
  {[name |-> GlobalScope, options |-> config.options]}
    \cup {[name |-> config.commands[j].name, options |-> config.commands[j].options] :
            j \in 1..Len(config.commands)}

\* C19: where a user's option of a scope declares the short alias h, the
\* help option injected into that scope has no short alias, and a -h token
\* in a segment of that scope (the program segment for a global option, the
\* command segment for an option of the command, the default command
\* included) sets the user's option and never the help option.
C19_ShortH ==
  [][/\ pc # "new" =>
          \A sc \in HelpScopes :
            (sc.name \in systemHelpScopes /\ UserShortH(sc.options) # {}) =>
              OptionAt(sc.options, help).short = <<>>
     /\ (/\ AtToken /\ IsShort(Token) /\ FlagName(Token) = <<"h">>
         /\ UserShortH(Table(SegmentScope)) # {}) =>
          /\ ~FailsWith("unknown-option")
          /\ \A k \in 1..Len(NewCalls) :
               /\ NewCalls[k].name # help
               /\ NewCalls[k].scope = SegmentScope
               /\ NewCalls[k].name \in {o.name : o \in UserShortH(Table(SegmentScope))}
          /\ ~Failed(outcome') => Len(NewCalls) = 1
          /\ Get(program'.options, help) = Get(program.options, help)]_vars


\* C20: no step of constructing the parser or of running the parse changes
\* the caller's configuration: its global options map and the options map
\* of each of its commands keep their entries, and no help option appears.
C20_CallerConfigUnchanged ==
  [][/\ callerConfig'.options = callerConfig.options
     /\ Len(callerConfig'.commands) = Len(callerConfig.commands)
     /\ \A j \in 1..Len(callerConfig.commands) :
          /\ callerConfig'.commands[j].options = callerConfig.commands[j].options
          /\ HasOption(callerConfig'.commands[j].options, help)
               => HasOption(callerConfig.commands[j].options, help)]_vars


\* the options of the scope that no flag set and whose env variable is present
EnvOnly(scope) ==
  {o \in ScopeOptions(scope) : FlagCalls(o, scope) = {} /\ EnvText(o).t # "undefined"}

\* the options of EnvOnly whose env text cannot be coerced to their type
Unresolved(scope) == {o \in EnvOnly(scope) : Coerced(o, EnvText(o).s).t = "undefined"}

\* C21: at the env/default pass, an option no flag set whose env variable
\* is present gets the coerced env text (boolean: empty or truthy text is
\* true, falsy text is false; number: the parsed number; string: the text);
\* when the text cannot be coerced the option gets no value, not even its
\* default, and it is queued for prompting, or fails the parse when prompts
\* are disabled, exactly when it is required.
C21_EnvCoercion ==
  [][pc = "finalizeOptions" =>
       /\ ~Failed(outcome') =>
            \A scope \in Scopes : \A o \in EnvOnly(scope) :
              /\ Get(SubMap(program', scope), o.name) = Coerced(o, EnvText(o).s)
              /\ includes(optionsToPrompt'[scope], o.name)
                   <=> (o \in Unresolved(scope) /\ o.required)
       /\ (config.disablePrompts /\ \E scope \in Scopes : \E o \in Unresolved(scope) : o.required)
            => FailsWith("missing-required-option")]_vars


\* the options of a table that are not marked hidden, in declaration order
Shown(opts) == SelectSeq(opts, LAMBDA o : ~o.hidden)

\* the sections a help text is to list, in order: those with nothing to
\* show are left out
Listed(sections) == SelectSeq(sections, LAMBDA sec : sec.rows # <<>>)

RootSections ==
  Listed(<<[header |-> "Global Options", command |-> <<>>, rows |-> Shown(GlobalOpts)]>>
         \o (IF config.defaultCommand # <<>>
               THEN <<[header |-> "Default Command Options", command |-> config.defaultCommand,
                       rows |-> Shown(CommandOptions(config, config.defaultCommand))]>>
               ELSE <<>>))

CommandSections(commandName) ==
  Listed(<<[header |-> "Command Options", command |-> commandName,
            rows |-> Shown(CommandOptions(config, commandName))],
           [header |-> "Global Options", command |-> <<>>, rows |-> Shown(GlobalOpts)]>>)

\* the help texts on stdout
HelpEntries(out) == {e \in Range(out) : e.kind = "help"}

\* C22: a root help text lists the global options section, then the default
\* command's options section when a default command is configured, then
\* every command with the default command tagged; the help text of an
\* explicit command lists that command's options section, then the global
\* options section and no command list; no section lists a hidden option,
\* and a flag of a hidden option is parsed like any other.
C22_HelpContent ==
  [][/\ \A e \in HelpEntries(stdout') :
          /\ \A sec \in Range(e.sections) : \A o \in Range(sec.rows) : ~o.hidden
          /\ IF e.command = <<>>
               THEN /\ e.sections = RootSections
                    /\ Len(e.commands) = Len(config.commands)
                    /\ \A j \in 1..Len(e.commands) :
                         /\ e.commands[j].name = config.commands[j].name
                         /\ e.commands[j].default
                              <=> (config.commands[j].name = config.defaultCommand)
               ELSE /\ e.sections = CommandSections(e.command)
                    /\ e.commands = <<>>
     /\ (/\ AtToken /\ IsLong(Token)
         /\ \E o \in Range(Table(SegmentScope)) : o.hidden /\ o.name = FlagName(Token)) =>
          /\ ~FailsWith("unknown-option")
          /\ ~Failed(outcome') =>
               /\ Len(NewCalls) = 1
               /\ LastCall.name = FlagName(Token)
               /\ OptionAt(Table(LastCall.scope), LastCall.name).hidden]_vars

\* root help was printed for a configuration with a default command and a
\* hidden global option: two sections and the command list
C22_Witness ==
  /\ pc = "done" /\ outcome.kind = "exit" /\ outcome.code = 0
  /\ config.defaultCommand # <<>>
  /\ \E o \in Range(GlobalOpts) : o.hidden
  /\ \E e \in HelpEntries(stdout) :
       /\ e.command = <<>> /\ Len(e.sections) = 2
       /\ \E j \in 1..Len(e.commands) : e.commands[j].default


\* the position of the option named n in the declarations of the scope
DeclaredAt(scope, n) == CHOOSE j \in 1..Len(Table(scope)) : Table(scope)[j].name = n

\* does the call c come before the call d in the order of the queue:
\* global scope first, declaration order within a scope
QueuedBefore(c, d) ==
  \/ c.queuedScope = "global" /\ d.queuedScope = "command"
  \/ /\ c.queuedScope = d.queuedScope
     /\ DeclaredAt(c.queuedScope, c.queuedName) < DeclaredAt(d.queuedScope, d.queuedName)

\* C23: a prompt call is made only while none is in flight; the calls are
\* made for required options of the global scope in declaration order and
\* then for those of the active command in declaration order, each with the
\* name, scope and declaration of its option; the program state handed to a
\* call is the current one, and no flag, env or default value is stored
\* after the first call.
C23_SequentialPrompts ==
  [][/\ (inFlight' # NoCall) <=> (pc' = "awaitPrompt")
     /\ promptLog' # promptLog =>
          /\ inFlight = NoCall
          /\ promptLog' = Append(promptLog, inFlight')
          /\ inFlight'.program = program /\ program' = program
          /\ LET c == inFlight'
             IN  /\ HasOption(Table(c.queuedScope), c.queuedName)
                 /\ OptionAt(Table(c.queuedScope), c.queuedName).required
                 /\ c.name = c.queuedName
                 /\ c.scope = c.queuedScope
                 /\ c.option = OptionAt(Table(c.queuedScope), c.queuedName)
                 /\ \A j \in 1..Len(promptLog) : QueuedBefore(promptLog[j], c)
     /\ promptLog # <<>> => \A k \in 1..Len(NewCalls) : NewCalls[k].via = "prompt"]_vars


\* C24: the values from flags, env and defaults are validated before the
\* first prompt: when one of them does not meet its declaration the
\* validation pass fails, and after a failure outside a prompt no prompt
\* was or will be invoked; no option is prompted twice; an answer that does
\* not meet its declaration ends the pipeline at once, is not stored, and
\* no further prompt follows.
C24_NoRetry ==
  [][/\ (pc = "validateOptions" /\ \E scope \in Scopes : Rejected(program, scope) # {})
          => Failed(outcome')
     /\ (Failed(outcome') /\ pc # "awaitPrompt") => promptLog' = <<>>
     /\ promptLog' # promptLog =>
          /\ pc = "promptForOptions"
          /\ \A j \in 1..Len(promptLog) :
               <<promptLog[j].queuedName, promptLog[j].queuedScope>>
                 # <<inFlight'.queuedName, inFlight'.queuedScope>>
     /\ pc = "awaitPrompt" =>
          IF NewCalls # <<>>
            THEN /\ ~Failed(outcome')
                 /\ Accepted(OptionAt(Table(inFlight.queuedScope), inFlight.queuedName),
                             LastCall.value)
            ELSE /\ Failed(outcome') /\ pc' = "done"
                 /\ program' = program /\ promptLog' = promptLog]_vars


\* C25: in the default prompt at most one line-reading interface is open;
\* one is created only when none is open, and none is open between two
\* attempts or once the prompt has returned or thrown, whichever way the
\* attempt ended; the returned value has the option's type, is among its
\* choices and is accepted by its validate predicate; a timeout ends the
\* prompt with an error and no value.
C25_DefaultPrompt ==
  [][/\ rlOpen' \in {0, 1}
     /\ rlOpen' > rlOpen => rlOpen = 0
     /\ promptPc' \in {"loop", "returned", "threw"} => rlOpen' = 0
     /\ promptPc = "question" => rlOpen' = 0
     /\ promptPc' = "returned" =>
          /\ promptValue'.t = promptOption.type
          /\ promptOption.hasChoices => promptValue' \in Range(promptOption.choices)
          /\ promptOption.validate # "" =>
               validateFn(promptOption.validate, promptValue') = Bool(TRUE)
          /\ promptError' = NoError
     /\ promptError'.kind = "prompt-timed-out" =>
          promptPc' = "threw" /\ promptValue' = Undefined]_vars

\* a rejected line was followed by a second attempt that returned a value
C25_Witness ==
  /\ promptPc = "returned" /\ attempt = 2 /\ Len(consoleErrors) = 1 /\ rlOpen = 0
  /\ promptOption.hasChoices

\* C26: in every state, the keys of options are the keys of globalOptions
\* together with the keys of commandOptions; options[k] is commandOptions[k]
\* when the command map has k and globalOptions[k] otherwise; every value
\* is stored with exactly one of the two scopes
C26_MergedView ==
  /\ Keys(program.options) = Keys(program.globalOptions) \cup Keys(program.commandOptions)
  /\ \A k \in Keys(program.options) :
       Get(program.options, k) = IF Has(program.commandOptions, k)
                                   THEN Get(program.commandOptions, k)
                                   ELSE Get(program.globalOptions, k)
  /\ \A j \in 1..Len(setLog) : setLog[j].scope \in {"global", "command"}

\* C27: a second invocation with the same config object, arguments and
\* environment ends as the first did (when the first called no prompt, the
\* second calls none, and the outcome, what was printed and the returned
\* result are the same)
C27_NoCrossInvocationState ==
  (invocation = 2 /\ pc = "done" /\ firstRun.promptLog = <<>>) =>
    /\ promptLog = <<>>
    /\ outcome = firstRun.outcome
    /\ stdout = firstRun.stdout
    /\ outcome.kind = "returned" => program = firstRun.program

\* the names a scope declares
DeclaredNames(scope) == {o.name : o \in ScopeOptions(scope)}

\* C28: in a returned result every key of globalOptions is the name of a
\* global option, every key of commandOptions the name of an option of the
\* active command, every key of options one of those; and a value stored
\* for a declared option (also one whose own name begins with no-) is
\* found under that option's own name
C28_DeclaredKeys ==
  Returned =>
    /\ \A scope \in Scopes : Keys(SubMap(program, scope)) \subseteq DeclaredNames(scope)
    /\ Keys(program.options) \subseteq DeclaredNames("global") \cup DeclaredNames("command")
    /\ \A j \in 1..Len(setLog) :
         setLog[j].name \in DeclaredNames(setLog[j].scope)
           => Has(SubMap(program, setLog[j].scope), setLog[j].name)

\* was a flag of the option o stored with the given scope
FlagGiven(scope, o) ==
  \E j \in 1..Len(setLog) : setLog[j].scope = scope /\ FlagFor(o, setLog[j])

\* C29: in a returned result of a parse with no env variable set, every
\* global option that declares a default has a value in globalOptions and
\* every option of the active command that declares a default has a value
\* in commandOptions, the default when no flag of that scope was given;
\* whatever the other scope holds under the same name
C29_DefaultsPerScope ==
  (Returned /\ env = <<>>) =>
    \A scope \in Scopes : \A o \in ScopeOptions(scope) :
      o.default.t # "undefined" =>
        /\ Has(SubMap(program, scope), o.name)
        /\ ~FlagGiven(scope, o) => Get(SubMap(program, scope), o.name) = o.default

\* the positions of #finalizeOptions
Finalizing(p) == p \in {"finalizeOptions", "validateOptions", "promptForOptions", "awaitPrompt"}

\* only flags have stored values, nothing is queued, no prompt was called
OnlyFlags(log, prompts, queue) ==
  /\ \A j \in 1..Len(log) : log[j].via \in {"flag", "stack"}
  /\ prompts = <<>>
  /\ queue.global = <<>> /\ queue.command = <<>>

\* the help check is to print help: a help flag true in the merged view,
\* for an explicit command whose injected help is true or with the global
\* help injected
HelpDue ==
  /\ truthy(Get(program.options, help))
  /\ \/ ExplicitCommand /\ HelpFlagTrue("command") /\ program.command \in systemHelpScopes
     \/ GlobalScope \in systemHelpScopes

\* a required option of the configuration has no value
RequiredMissing ==
  \E scope \in Scopes : \E o \in ScopeOptions(scope) :
    o.required /\ ~Has(program.options, o.name)

====
